---- MODULE Spec2Model ----
(***************************************************************************)
(* ai-carbon: environmental impact calculations for AI model usage.        *)
(* Model of index.ts (src/unnamed/part_000): the three provider            *)
(* calculators, the multi-provider dispatch, the legacy Claude entry       *)
(* points and the batch operations.                                        *)
(*                                                                         *)
(* Every `number` of the program is an IEEE 754 binary64 value.  The       *)
(* arithmetic below is binary64 arithmetic with round-to-nearest-even, on  *)
(* 53-bit significands held as multi-limb naturals, so that equalities     *)
(* between computed figures mean what they mean in the running program.    *)
(* Subnormals and overflow do not occur for the magnitudes the calculators *)
(* produce and are not represented.  A quotient by zero is NaN (0 / 0) or  *)
(* an infinity; an infinity is a result only, never an operand.            *)
(***************************************************************************)
EXTENDS Integers, Sequences, FiniteSets, TLC

(***************************************************************************)
(* Multi-limb naturals: little-endian sequences of limbs in 0..B-1, with   *)
(* no most-significant zero limb; the empty sequence is 0.                 *)
(***************************************************************************)
LimbBits == 14
B == 16384
MantBits == 53

RECURSIVE BNorm(_)
BNorm(a) == IF a = <<>> THEN a
            ELSE IF a[Len(a)] = 0 THEN BNorm(SubSeq(a, 1, Len(a) - 1)) ELSE a

RECURSIVE BFromNat(_)
BFromNat(n) == IF n = 0 THEN <<>> ELSE <<n % B>> \o BFromNat(n \div B)

BHead(a) == IF a = <<>> THEN 0 ELSE Head(a)
BTail(a) == IF a = <<>> THEN <<>> ELSE Tail(a)

RECURSIVE BAddC(_, _, _)
BAddC(a, b, c) ==
    IF a = <<>> /\ b = <<>> THEN (IF c = 0 THEN <<>> ELSE <<c>>)
    ELSE LET s == BHead(a) + BHead(b) + c
         IN <<s % B>> \o BAddC(BTail(a), BTail(b), s \div B)

BAdd(a, b) == BAddC(a, b, 0)

RECURSIVE BSubC(_, _, _)
BSubC(a, b, c) ==
    IF a = <<>> THEN <<>>
    ELSE LET d == Head(a) - BHead(b) - c
         IN <<d % B>> \o BSubC(Tail(a), BTail(b), IF d < 0 THEN 1 ELSE 0)

\* a - b for a >= b
BSub(a, b) == BNorm(BSubC(a, b, 0))

RECURSIVE BCmpFrom(_, _, _)
BCmpFrom(a, b, i) ==
    IF i = 0 THEN 0
    ELSE IF a[i] < b[i] THEN -1
    ELSE IF a[i] > b[i] THEN 1
    ELSE BCmpFrom(a, b, i - 1)

BCmp(a, b) == IF Len(a) < Len(b) THEN -1
              ELSE IF Len(a) > Len(b) THEN 1
              ELSE BCmpFrom(a, b, Len(a))

RECURSIVE BMulS(_, _, _)
BMulS(a, k, c) ==
    IF a = <<>> THEN (IF c = 0 THEN <<>> ELSE <<c>>)
    ELSE LET p == Head(a) * k + c
         IN <<p % B>> \o BMulS(Tail(a), k, p \div B)

RECURSIVE BMul(_, _)
BMul(a, b) ==
    IF b = <<>> \/ a = <<>> THEN <<>>
    ELSE BAdd(BMulS(a, Head(b), 0), <<0>> \o BMul(a, Tail(b)))

\* quotient and remainder of a by a small divisor d (d * B fits an integer)
RECURSIVE BDivS(_, _)
BDivS(a, d) ==
    IF a = <<>> THEN [q |-> <<>>, r |-> 0]
    ELSE LET hi  == BDivS(Tail(a), d)
             cur == hi.r * B + Head(a)
         IN [q |-> <<cur \div d>> \o hi.q, r |-> cur % d]

RECURSIVE SmallBitLen(_)
SmallBitLen(n) == IF n = 0 THEN 0 ELSE 1 + SmallBitLen(n \div 2)

BitLen(a) == IF a = <<>> THEN 0 ELSE LimbBits * (Len(a) - 1) + SmallBitLen(a[Len(a)])

Zeros(n) == [i \in 1..n |-> 0]

BShl(a, n) == IF a = <<>> THEN <<>>
              ELSE Zeros(n \div LimbBits) \o BMulS(a, 2 ^ (n % LimbBits), 0)

BShr(a, n) ==
    LET q == n \div LimbBits
    IN IF q >= Len(a) THEN <<>>
       ELSE BNorm(BDivS(SubSeq(a, q + 1, Len(a)), 2 ^ (n % LimbBits)).q)

BBit(a, i) ==
    LET q == i \div LimbBits
    IN IF q >= Len(a) THEN 0 ELSE (a[q + 1] \div (2 ^ (i % LimbBits))) % 2

BLowNonZero(a, n) ==
    LET q == n \div LimbBits
    IN \/ \E i \in 1..q : i <= Len(a) /\ a[i] # 0
       \/ q < Len(a) /\ a[q + 1] % (2 ^ (n % LimbBits)) # 0

RECURSIVE BTrailingZeros(_)
BTrailingZeros(a) ==
    IF a = <<>> THEN 0
    ELSE IF Head(a) = 0 THEN LimbBits + BTrailingZeros(Tail(a))
    ELSE CHOOSE k \in 0..(LimbBits - 1) :
             Head(a) % (2 ^ k) = 0 /\ (Head(a) \div (2 ^ k)) % 2 = 1

\* bitwise long division: n further quotient bits of rem / d, rem < d
RECURSIVE BLongDiv(_, _, _, _)
BLongDiv(rem, d, q, n) ==
    IF n = 0 THEN [q |-> q, r |-> rem]
    ELSE LET r2 == BAdd(rem, rem)
             q2 == BAdd(q, q)
         IN IF Len(q2) >= 0 /\ BCmp(r2, d) >= 0
            THEN BLongDiv(BSub(r2, d), d, BAddC(q2, <<1>>, 0), n - 1)
            ELSE BLongDiv(r2, d, q2, n - 1)

(***************************************************************************)
(* Exact dyadic values (-1)^sign * man * 2^exp, and binary64 numbers: a    *)
(* dyadic value whose significand has exactly 53 bits, or zero, or NaN.    *)
(***************************************************************************)
NaN == [nan |-> TRUE]
IsNaN(x) == x = NaN
FZero == [sign |-> 0, man |-> <<>>, exp |-> 0]

\* exact sum and product of two dyadic values (no rounding)
XAddAligned(sx, sy, mx, my, e, c) ==
    IF sx = sy THEN [sign |-> sx, man |-> BAdd(mx, my), exp |-> e]
    ELSE IF c = 0 THEN FZero
    ELSE IF c > 0 THEN [sign |-> sx, man |-> BSub(mx, my), exp |-> e]
    ELSE [sign |-> sy, man |-> BSub(my, mx), exp |-> e]

XAddAt(x, y, mx, my, e) == XAddAligned(x.sign, y.sign, mx, my, e, BCmp(mx, my))

XAddExp(x, y, e) == XAddAt(x, y, BShl(x.man, x.exp - e), BShl(y.man, y.exp - e), e)

XAdd(x, y) ==
    IF x.man = <<>> THEN y
    ELSE IF y.man = <<>> THEN x
    ELSE XAddExp(x, y, IF x.exp < y.exp THEN x.exp ELSE y.exp)

XNeg(x) == IF x.man = <<>> THEN x ELSE [x EXCEPT !.sign = 1 - x.sign]
XAbs(x) == [x EXCEPT !.sign = 0]
XSub(x, y) == XAdd(x, XNeg(y))

XMul(x, y) ==
    IF x.man = <<>> \/ y.man = <<>> THEN FZero
    ELSE [sign |-> (x.sign + y.sign) % 2, man |-> BMul(x.man, y.man), exp |-> x.exp + y.exp]

XInt(n) == IF n < 0 THEN [sign |-> 1, man |-> BFromNat(-n), exp |-> 0]
           ELSE IF n = 0 THEN FZero
           ELSE [sign |-> 0, man |-> BFromNat(n), exp |-> 0]

\* x * 2^k, exactly
XScale(x, k) == IF x.man = <<>> THEN x ELSE [x EXCEPT !.exp = @ + k]

XSign(x) == IF x.man = <<>> THEN 0 ELSE IF x.sign = 1 THEN -1 ELSE 1
XCmp(x, y) == XSign(XSub(x, y))
XLe(x, y) == XCmp(x, y) <= 0
XLt(x, y) == XCmp(x, y) < 0
XEq(x, y) == XCmp(x, y) = 0

\* round-to-nearest-even of (-1)^sign * M * 2^e (+ a sticky remainder) to 53 bits
FNormal(sign, k, e) ==
    IF BitLen(k) > MantBits
    THEN [sign |-> sign, man |-> BShr(k, 1), exp |-> e + 1]
    ELSE [sign |-> sign, man |-> k, exp |-> e]

\* the guard bit is set and the value is above the half, or at it with an odd kept part
RoundsUp(M, sh, sticky) ==
    BBit(M, sh - 1) = 1 /\ (sticky \/ BLowNonZero(M, sh - 1) \/ BBit(M, sh) = 1)

BIncIf(k, up) == IF up THEN BAdd(k, <<1>>) ELSE k

FRoundLen(sign, M, e, sticky, L) ==
    IF L <= MantBits
    THEN [sign |-> sign, man |-> BShl(M, MantBits - L), exp |-> e - (MantBits - L)]
    ELSE FNormal(sign, BIncIf(BShr(M, L - MantBits), RoundsUp(M, L - MantBits, sticky)),
                 e + (L - MantBits))

FRound(sign, M, e, sticky) ==
    IF M = <<>> THEN FZero ELSE FRoundLen(sign, M, e, sticky, BitLen(M))

FRoundX(x) == FRound(x.sign, x.man, x.exp, FALSE)

\* an integer-valued number (exact below 2^53)
FromInt(n) == FRoundX(XInt(n))

FMul(x, y) == IF IsNaN(x) \/ IsNaN(y) THEN NaN ELSE FRoundX(XMul(x, y))
FAdd(x, y) == IF IsNaN(x) \/ IsNaN(y) THEN NaN ELSE FRoundX(XAdd(x, y))
FSub(x, y) == IF IsNaN(x) \/ IsNaN(y) THEN NaN ELSE FRoundX(XSub(x, y))

DivExtra == 56
SmallDivisorMax == 131072

IsSmall(odd) == Len(odd) = 1 \/ (Len(odd) = 2 /\ odd[2] * B + odd[1] < SmallDivisorMax)
SmallValue(odd) == IF Len(odd) = 1 THEN odd[1] ELSE odd[2] * B + odd[1]

FDivSmall(sign, e, d) == FRound(sign, BNorm(d.q), e, d.r # 0)
FDivLong(sign, e, d) == FRound(sign, d.q, e, d.r # <<>>)

\* the quotient of two significands, the divisor being odd * 2^tz
FDivOdd(x, y, tz, odd) ==
    IF IsSmall(odd)
    THEN FDivSmall((x.sign + y.sign) % 2, x.exp - y.exp - tz - DivExtra,
                   BDivS(BShl(x.man, DivExtra), SmallValue(odd)))
    ELSE FDivLong((x.sign + y.sign) % 2, x.exp - y.exp - DivExtra,
                  BLongDiv(IF BCmp(x.man, y.man) >= 0 THEN BSub(x.man, y.man) ELSE x.man, y.man,
                           IF BCmp(x.man, y.man) >= 0 THEN <<1>> ELSE <<>>, DivExtra))

FDivTz(x, y, tz) == FDivOdd(x, y, tz, BShr(y.man, tz))

Infinity(sign) == [inf |-> TRUE, sign |-> sign]

FDiv(x, y) ==
    IF IsNaN(x) \/ IsNaN(y) THEN NaN
    ELSE IF y.man = <<>> THEN (IF x.man = <<>> THEN NaN ELSE Infinity(x.sign))
    ELSE IF x.man = <<>> THEN FZero
    ELSE FDivTz(x, y, BTrailingZeros(y.man))

\* comparisons of numbers; every comparison with NaN is false
FLt(x, y) == IF IsNaN(x) \/ IsNaN(y) THEN FALSE ELSE XLt(x, y)
FLe(x, y) == IF IsNaN(x) \/ IsNaN(y) THEN FALSE ELSE XLe(x, y)
FEq(x, y) == IF IsNaN(x) \/ IsNaN(y) THEN FALSE ELSE x = y

\* the number a decimal literal n/d of the source denotes: the binary64
\* nearest to the rational n/d
Dec(n, d) == FDiv(FromInt(n), FromInt(d))


(***************************************************************************)
(* JavaScript values.  An optional property that is undefined is a field   *)
(* the record does not have.  A property read obj[key] finds the object's  *)
(* own property, else a property inherited from Object.prototype, else     *)
(* undefined.                                                              *)
(***************************************************************************)
Has(o, f) == f \in DOMAIN o
NoFields == [x \in {} |-> 0]
Field(f, v) == f :> v

\* the property names every object inherits from Object.prototype
ObjectPrototypeKeys ==
    {"constructor", "toString", "toLocaleString", "valueOf", "hasOwnProperty",
     "isPrototypeOf", "propertyIsEnumerable", "__proto__",
     "__defineGetter__", "__defineSetter__", "__lookupGetter__", "__lookupSetter__"}

\* obj[key]
JSGet(obj, key) ==
    IF key \in DOMAIN obj.props THEN [kind |-> "own", value |-> obj.props[key]]
    ELSE IF key \in ObjectPrototypeKeys THEN [kind |-> "inherited", key |-> key]
    ELSE [kind |-> "undefined"]

\* !v for the result of a property read (inherited members are functions / objects: truthy)
Falsy(v) == v.kind = "undefined"

\* v.f used as a number: a property of a table entry, undefined (NaN in arithmetic) otherwise
NumProp(v, f) == IF v.kind = "own" THEN v.value[f] ELSE NaN

\* Object.keys(obj): own keys in insertion order
ObjectKeys(obj) == obj.keys

\* config.f || 0
OrZero(o, f) == IF Has(o, f) THEN o[f] ELSE 0
\* config.reasoning || false
OrFalse(o, f) == IF Has(o, f) THEN o[f] ELSE FALSE
\* config.region || dflt   (the empty string is falsy)
OrDefault(o, f, dflt) == IF Has(o, f) /\ o[f] # "" THEN o[f] ELSE dflt
\* { f: o.f } : the property is copied when it has a value
CopyField(o, f) == IF Has(o, f) THEN Field(f, o[f]) ELSE NoFields

Ok(v) == [ok |-> TRUE, value |-> v]
Throw(name, msg) == [ok |-> FALSE, error |-> [name |-> name, message |-> msg]]

(***************************************************************************)
(* The static tables of the three providers and of the legacy entry points *)
(***************************************************************************)
ModelInfo(ept, arch, params, use) ==
    [energyPerToken |-> ept, architecture |-> arch, estimatedParameters |-> params, useCase |-> use]

RegionalFactor(ci, renewable, adj) ==
    [carbonIntensity |-> ci, renewablePercentage |-> renewable, adjustmentFactor |-> adj]

ClaudeModelSpecs ==
    [keys  |-> <<"claude-4-sonnet", "claude-4-opus">>,
     props |-> [m \in {"claude-4-sonnet", "claude-4-opus"} |->
                  IF m = "claude-4-sonnet"
                  THEN ModelInfo(Dec(12, 10000), "mixture-of-experts", "~200B", "Efficient everyday tasks")
                  ELSE ModelInfo(Dec(45, 10000), "transformer-large", "~1T+", "Research and complex reasoning")]]

ClaudeInfrastructure == [pue |-> Dec(112, 100), carbonIntensity |-> Dec(385, 1000), wue |-> Dec(18, 10)]

ClaudeCacheMultipliers == [creation |-> Dec(11, 10), retrieval |-> Dec(12, 100)]

ClaudeReasoningMultiplier == Dec(25, 10)

ClaudeRegionalFactors ==
    [keys  |-> <<"us-east-1", "us-west-2", "eu-west-1", "ap-southeast-1">>,
     props |-> [r \in {"us-east-1", "us-west-2", "eu-west-1", "ap-southeast-1"} |->
                  CASE r = "us-east-1"      -> RegionalFactor(Dec(385, 1000), Dec(60, 100), Dec(10, 10))
                    [] r = "us-west-2"      -> RegionalFactor(Dec(285, 1000), Dec(75, 100), Dec(95, 100))
                    [] r = "eu-west-1"      -> RegionalFactor(Dec(295, 1000), Dec(70, 100), Dec(92, 100))
                    [] r = "ap-southeast-1" -> RegionalFactor(Dec(485, 1000), Dec(45, 100), Dec(115, 100))]]

OpenAIModelSpecs ==
    [keys  |-> <<"gpt-4o", "gpt-4", "gpt-4-turbo", "o1-preview">>,
     props |-> [m \in {"gpt-4o", "gpt-4", "gpt-4-turbo", "o1-preview"} |->
                  CASE m = "gpt-4o"      -> ModelInfo(Dec(25, 10000), "transformer-large", "~200B", "General purpose with improved efficiency")
                    [] m = "gpt-4"       -> ModelInfo(Dec(35, 10000), "transformer-large", "~1.8T", "Advanced reasoning and complex tasks")
                    [] m = "gpt-4-turbo" -> ModelInfo(Dec(30, 10000), "transformer-large", "~1.8T", "Fast responses for complex tasks")
                    [] m = "o1-preview"  -> ModelInfo(Dec(250, 10000), "reasoning-enhanced", "~1.8T", "Complex reasoning and problem solving")]]

OpenAIInfrastructure == [pue |-> Dec(112, 100), wue |-> Dec(15, 10)]

OpenAIRegionalFactors ==
    [keys  |-> <<"us-east-1", "us-west-2", "europe", "asia-pacific">>,
     props |-> [r \in {"us-east-1", "us-west-2", "europe", "asia-pacific"} |->
                  CASE r = "us-east-1"    -> RegionalFactor(Dec(385, 1000), Dec(85, 100), Dec(10, 10))
                    [] r = "us-west-2"    -> RegionalFactor(Dec(285, 1000), Dec(90, 100), Dec(10, 10))
                    [] r = "europe"       -> RegionalFactor(Dec(295, 1000), Dec(95, 100), Dec(98, 100))
                    [] r = "asia-pacific" -> RegionalFactor(Dec(485, 1000), Dec(80, 100), Dec(108, 100))]]

GeminiModelSpecs ==
    [keys  |-> <<"gemini-2.5-pro", "gemini-1.5-pro">>,
     props |-> [m \in {"gemini-2.5-pro", "gemini-1.5-pro"} |->
                  IF m = "gemini-2.5-pro"
                  THEN ModelInfo(Dec(8, 10000), "mixture-of-experts-tpu", "~1.5T", "Advanced reasoning with superior efficiency")
                  ELSE ModelInfo(Dec(10, 10000), "mixture-of-experts-tpu", "~1T", "Multimodal tasks with long context")]]

GeminiInfrastructure == [pue |-> Dec(109, 100), wue |-> Dec(12, 10), tpuEfficiencyBonus |-> Dec(5, 10)]

GeminiRegionalFactors ==
    [keys  |-> <<"us-central1", "us-west1", "europe-west1", "asia-southeast1">>,
     props |-> [r \in {"us-central1", "us-west1", "europe-west1", "asia-southeast1"} |->
                  CASE r = "us-central1"     -> RegionalFactor(Dec(385, 1000), Dec(64, 100), Dec(95, 100))
                    [] r = "us-west1"        -> RegionalFactor(Dec(285, 1000), Dec(90, 100), Dec(90, 100))
                    [] r = "europe-west1"    -> RegionalFactor(Dec(295, 1000), Dec(90, 100), Dec(88, 100))
                    [] r = "asia-southeast1" -> RegionalFactor(Dec(485, 1000), Dec(60, 100), Dec(105, 100))]]

\* const providers = { claude: new ClaudeProvider(), openai: ..., gemini: ... }
ProviderRegistry ==
    [keys  |-> <<"claude", "openai", "gemini">>,
     props |-> [p \in {"claude", "openai", "gemini"} |->
                  CASE p = "claude" -> [name |-> "claude",
                                        modelSpecs |-> ClaudeModelSpecs,
                                        infrastructure |-> ClaudeInfrastructure,
                                        cacheMultipliers |-> ClaudeCacheMultipliers,
                                        reasoningMultiplier |-> ClaudeReasoningMultiplier,
                                        regionalFactors |-> ClaudeRegionalFactors]
                    [] p = "openai" -> [name |-> "openai",
                                        modelSpecs |-> OpenAIModelSpecs,
                                        infrastructure |-> OpenAIInfrastructure,
                                        regionalFactors |-> OpenAIRegionalFactors]
                    [] p = "gemini" -> [name |-> "gemini",
                                        modelSpecs |-> GeminiModelSpecs,
                                        infrastructure |-> GeminiInfrastructure,
                                        regionalFactors |-> GeminiRegionalFactors]]]

\* the legacy module constants
MODEL_SPECS ==
    [keys  |-> <<"claude-4-sonnet", "claude-4-opus">>,
     props |-> [m \in {"claude-4-sonnet", "claude-4-opus"} |->
                  IF m = "claude-4-sonnet"
                  THEN [energyPerToken |-> Dec(12, 10000), architecture |-> "mixture-of-experts"]
                  ELSE [energyPerToken |-> Dec(45, 10000), architecture |-> "transformer-large"]]]

INFRASTRUCTURE == [pue |-> Dec(112, 100), carbonIntensity |-> Dec(385, 1000), wue |-> Dec(18, 10)]

CACHE_MULTIPLIERS == [creation |-> Dec(11, 10), retrieval |-> Dec(12, 100)]

REASONING_MULTIPLIER == Dec(25, 10)

LegacyTables ==
    [MODEL_SPECS |-> MODEL_SPECS, INFRASTRUCTURE |-> INFRASTRUCTURE,
     CACHE_MULTIPLIERS |-> CACHE_MULTIPLIERS, REASONING_MULTIPLIER |-> REASONING_MULTIPLIER]

\* numeric literals of the calculators
JoulesPerKwh == FromInt(3600000)
One == FromInt(1)
Thousand == FromInt(1000)
OpenAIOutputMultiplier == Dec(45, 10)
OpenAIReasoningMultiplier == Dec(20, 10)
GeminiReasoningMultiplier == Dec(18, 10)


(***************************************************************************)
(* The provider calculators.  `self` is the provider object, `config` the  *)
(* EmissionConfig.  The result's timestamp is not represented.             *)
(***************************************************************************)
EmissionResult(provider, config, co2Kg, energyKwh, waterLiters) ==
    [provider     |-> provider,
     model        |-> config.model,
     co2Grams     |-> FMul(co2Kg, Thousand),
     energyWh     |-> FMul(energyKwh, Thousand),
     waterLiters  |-> waterLiters,
     inputTokens  |-> config.inputTokens,
     outputTokens |-> config.outputTokens,
     reasoning    |-> OrFalse(config, "reasoning")]
    @@ CopyField(config, "cacheCreationTokens")
    @@ CopyField(config, "cacheReadTokens")

\* reading a property of an undefined regionalFactor
RegionTypeError ==
    Throw("TypeError", <<"Cannot read properties of undefined (reading 'adjustmentFactor')">>)

\* if (cond) energy *= multiplier
ApplyMultiplier(energy, cond, multiplier) == IF cond THEN FMul(energy, multiplier) ELSE energy

\* the conversion to kWh with the PUE applied twice
EnergyKwhPueTwice(self, regionalFactor, totalEnergyJoules) ==
    FMul(FMul(FMul(FDiv(totalEnergyJoules, JoulesPerKwh), self.infrastructure.pue),
              self.infrastructure.pue),
         NumProp(regionalFactor, "adjustmentFactor"))

\* (totalEnergyJoules / 3_600_000) * pue * regionalFactor.adjustmentFactor
EnergyKwh(self, regionalFactor, totalEnergyJoules) ==
    FMul(FMul(FDiv(totalEnergyJoules, JoulesPerKwh), self.infrastructure.pue),
         NumProp(regionalFactor, "adjustmentFactor"))

\* a faulty variant of Co2Kg: the renewable share is subtracted the wrong way round
Co2KgShareReversed(regionalFactor, energyKwh) ==
    FMul(FMul(energyKwh, NumProp(regionalFactor, "carbonIntensity")),
         FSub(NumProp(regionalFactor, "renewablePercentage"), One))

\* energyKwh * carbonIntensity * (1 - renewablePercentage)
Co2Kg(regionalFactor, energyKwh) ==
    FMul(FMul(energyKwh, NumProp(regionalFactor, "carbonIntensity")),
         FSub(One, NumProp(regionalFactor, "renewablePercentage")))

\* the CO2 and water figures of an energy, and the result record
Impacts(self, provider, config, regionalFactor, energyKwh) ==
    Ok(EmissionResult(provider, config, Co2Kg(regionalFactor, energyKwh), energyKwh,
                      FMul(energyKwh, self.infrastructure.wue)))

\* a faulty variant of ClaudeTotalEnergyJoules: cache reads are credited, not charged
ClaudeTotalEnergyReadsCredited(self, config, energyPerToken) ==
    FSub(ApplyMultiplier(FAdd(FMul(FromInt(config.inputTokens + config.outputTokens), energyPerToken),
                              FMul(FMul(FromInt(OrZero(config, "cacheCreationTokens")), energyPerToken),
                                   self.cacheMultipliers.creation)),
                         OrFalse(config, "reasoning"), self.reasoningMultiplier),
         FMul(FMul(FromInt(OrZero(config, "cacheReadTokens")), energyPerToken),
              self.cacheMultipliers.retrieval))

\* a faulty variant of ClaudeTotalEnergyJoules: reasoning scales the base energy only
ClaudeTotalEnergyWritesUnscaled(self, config, energyPerToken) ==
    FAdd(FAdd(ApplyMultiplier(FMul(FromInt(config.inputTokens + config.outputTokens), energyPerToken),
                              OrFalse(config, "reasoning"), self.reasoningMultiplier),
              FMul(FMul(FromInt(OrZero(config, "cacheCreationTokens")), energyPerToken),
                   self.cacheMultipliers.creation)),
         FMul(FMul(FromInt(OrZero(config, "cacheReadTokens")), energyPerToken),
              self.cacheMultipliers.retrieval))

\* a faulty variant of ClaudeTotalEnergyJoules: reasoning scales the cache reads too
ClaudeTotalEnergyReadsScaled(self, config, energyPerToken) ==
    ApplyMultiplier(FAdd(FAdd(FMul(FromInt(config.inputTokens + config.outputTokens), energyPerToken),
                              FMul(FMul(FromInt(OrZero(config, "cacheCreationTokens")), energyPerToken),
                                   self.cacheMultipliers.creation)),
                         FMul(FMul(FromInt(OrZero(config, "cacheReadTokens")), energyPerToken),
                              self.cacheMultipliers.retrieval)),
                    OrFalse(config, "reasoning"), self.reasoningMultiplier)

\* a faulty variant of ClaudeTotalEnergyJoules: cache tokens cost what regular tokens cost
ClaudeTotalEnergyCacheAtPar(self, config, energyPerToken) ==
    FAdd(ApplyMultiplier(FAdd(FMul(FromInt(config.inputTokens + config.outputTokens), energyPerToken),
                              FMul(FromInt(OrZero(config, "cacheCreationTokens")), energyPerToken)),
                         OrFalse(config, "reasoning"), self.reasoningMultiplier),
         FMul(FromInt(OrZero(config, "cacheReadTokens")), energyPerToken))

ClaudeTotalEnergyJoules(self, config, energyPerToken) ==
    LET regularTokens    == config.inputTokens + config.outputTokens
        baseEnergyJoules == FMul(FromInt(regularTokens), energyPerToken)
        cacheWriteEnergy == FMul(FMul(FromInt(OrZero(config, "cacheCreationTokens")), energyPerToken),
                                 self.cacheMultipliers.creation)
        cacheReadEnergy  == FMul(FMul(FromInt(OrZero(config, "cacheReadTokens")), energyPerToken),
                                 self.cacheMultipliers.retrieval)
        computeEnergyJoules == ApplyMultiplier(FAdd(baseEnergyJoules, cacheWriteEnergy),
                                               OrFalse(config, "reasoning"), self.reasoningMultiplier)
    IN FAdd(computeEnergyJoules, cacheReadEnergy)

ClaudeCalculateEmissions(self, config) ==
    LET modelSpec      == JSGet(self.modelSpecs, config.model)
        regionalFactor == JSGet(self.regionalFactors, OrDefault(config, "region", "us-east-1"))
    IN IF Falsy(modelSpec) THEN Throw("Error", <<"Unsupported Claude model: ", config.model>>)
       ELSE IF Falsy(regionalFactor) THEN RegionTypeError
       ELSE Impacts(self, "claude", config, regionalFactor,
                    EnergyKwh(self, regionalFactor,
                              ClaudeTotalEnergyJoules(self, config, NumProp(modelSpec, "energyPerToken"))))

\* the OpenAI energy with output tokens costing what input tokens cost
OpenAITotalEnergyOutputAtPar(self, config, energyPerToken) ==
    ApplyMultiplier(FAdd(FMul(FromInt(config.inputTokens), energyPerToken),
                         FMul(FromInt(config.outputTokens), energyPerToken)),
                    OrFalse(config, "reasoning") /\ config.model # "o1-preview",
                    OpenAIReasoningMultiplier)

\* the reasoning multiplier applied to every OpenAI model, o1-preview included
OpenAITotalEnergyReasoningAlways(self, config, energyPerToken) ==
    LET inputEnergyJoules  == FMul(FromInt(config.inputTokens), energyPerToken)
        outputEnergyJoules == FMul(FMul(FromInt(config.outputTokens), energyPerToken),
                                   OpenAIOutputMultiplier)
    IN ApplyMultiplier(FAdd(inputEnergyJoules, outputEnergyJoules),
                       OrFalse(config, "reasoning"),
                       OpenAIReasoningMultiplier)

OpenAITotalEnergyJoules(self, config, energyPerToken) ==
    LET inputEnergyJoules  == FMul(FromInt(config.inputTokens), energyPerToken)
        outputEnergyJoules == FMul(FMul(FromInt(config.outputTokens), energyPerToken),
                                   OpenAIOutputMultiplier)
    IN ApplyMultiplier(FAdd(inputEnergyJoules, outputEnergyJoules),
                       OrFalse(config, "reasoning") /\ config.model # "o1-preview",
                       OpenAIReasoningMultiplier)

OpenAICalculateEmissions(self, config) ==
    LET modelSpec      == JSGet(self.modelSpecs, config.model)
        regionalFactor == JSGet(self.regionalFactors, OrDefault(config, "region", "us-east-1"))
    IN IF Falsy(modelSpec) THEN Throw("Error", <<"Unsupported OpenAI model: ", config.model>>)
       ELSE IF Falsy(regionalFactor) THEN RegionTypeError
       ELSE Impacts(self, "openai", config, regionalFactor,
                    EnergyKwh(self, regionalFactor,
                              OpenAITotalEnergyJoules(self, config, NumProp(modelSpec, "energyPerToken"))))

\* the Gemini energy with cache tokens counted as regular tokens
GeminiTotalEnergyWithCache(self, config, energyPerToken) ==
    ApplyMultiplier(FMul(FMul(FromInt(config.inputTokens + config.outputTokens
                                      + OrZero(config, "cacheCreationTokens")
                                      + OrZero(config, "cacheReadTokens")),
                              energyPerToken),
                         self.infrastructure.tpuEfficiencyBonus),
                    OrFalse(config, "reasoning"), GeminiReasoningMultiplier)

\* the Gemini energy with the hardware bonus left out when reasoning
GeminiTotalEnergyBonusLost(self, config, energyPerToken) ==
    IF OrFalse(config, "reasoning")
    THEN FMul(FMul(FromInt(config.inputTokens + config.outputTokens), energyPerToken),
              GeminiReasoningMultiplier)
    ELSE FMul(FMul(FromInt(config.inputTokens + config.outputTokens), energyPerToken),
              self.infrastructure.tpuEfficiencyBonus)

GeminiTotalEnergyJoules(self, config, energyPerToken) ==
    LET totalTokens == config.inputTokens + config.outputTokens
        withBonus   == FMul(FMul(FromInt(totalTokens), energyPerToken),
                            self.infrastructure.tpuEfficiencyBonus)
    IN ApplyMultiplier(withBonus, OrFalse(config, "reasoning"), GeminiReasoningMultiplier)

GeminiCalculateEmissions(self, config) ==
    LET modelSpec      == JSGet(self.modelSpecs, config.model)
        regionalFactor == JSGet(self.regionalFactors, OrDefault(config, "region", "us-central1"))
    IN IF Falsy(modelSpec) THEN Throw("Error", <<"Unsupported Gemini model: ", config.model>>)
       ELSE IF Falsy(regionalFactor) THEN RegionTypeError
       ELSE Impacts(self, "gemini", config, regionalFactor,
                    EnergyKwh(self, regionalFactor,
                              GeminiTotalEnergyJoules(self, config, NumProp(modelSpec, "energyPerToken"))))

\* provider.calculateEmissions(config), dispatched on the provider object's class
CalculateEmissions(self, config) ==
    CASE self.name = "claude" -> ClaudeCalculateEmissions(self, config)
      [] self.name = "openai" -> OpenAICalculateEmissions(self, config)
      [] self.name = "gemini" -> GeminiCalculateEmissions(self, config)

\* provider.getSupportedModels()
ProviderSupportedModels(self) == ObjectKeys(self.modelSpecs)

UnsupportedModelLabel(self) ==
    CASE self.name = "claude" -> "Unsupported Claude model: "
      [] self.name = "openai" -> "Unsupported OpenAI model: "
      [] self.name = "gemini" -> "Unsupported Gemini model: "

\* provider.getModelInfo(model)
ProviderModelInfo(self, model) ==
    LET spec == JSGet(self.modelSpecs, model)
    IN IF Falsy(spec) THEN Throw("Error", <<UnsupportedModelLabel(self), model>>) ELSE Ok(spec)

\* the EmissionConfig calculateImpact builds from its options
ConfigOf(options) ==
    [f \in DOMAIN options \ {"provider"} |-> options[f]]

NotAFunction(method) == Throw("TypeError", <<"provider.", method, " is not a function">>)

\* calculateImpact(options): the settlement of the promise it returns
calculateImpact(reg, options) ==
    LET provider == JSGet(reg, options.provider)
    IN IF Falsy(provider) THEN Throw("Error", <<"Unsupported provider: ", options.provider>>)
       ELSE IF provider.kind = "inherited" THEN NotAFunction("calculateEmissions")
       ELSE CalculateEmissions(provider.value, ConfigOf(options))

\* calculateImpact throws before it reaches calculateEmissions, so that the
\* returned promise is rejected at once and adopts no inner promise
RejectsAtOnce(reg, options) == JSGet(reg, options.provider).kind # "own"

getSupportedModels(reg, provider) ==
    LET providerInstance == JSGet(reg, provider)
    IN IF Falsy(providerInstance) THEN Throw("Error", <<"Unsupported provider: ", provider>>)
       ELSE IF providerInstance.kind = "inherited" THEN NotAFunction("getSupportedModels")
       ELSE Ok(ProviderSupportedModels(providerInstance.value))

getModelInfo(reg, provider, model) ==
    LET providerInstance == JSGet(reg, provider)
    IN IF Falsy(providerInstance) THEN Throw("Error", <<"Unsupported provider: ", provider>>)
       ELSE IF providerInstance.kind = "inherited" THEN NotAFunction("getModelInfo")
       ELSE ProviderModelInfo(providerInstance.value, model)

(***************************************************************************)
(* The legacy Claude entry points                                          *)
(***************************************************************************)
\* the legacy energy with the reasoning multiplier reaching the cache reads too
LegacyTotalEnergyReadsScaled(lg, options, energyPerToken) ==
    LET regularTokens    == options.inputTokens + options.outputTokens
        baseEnergyJoules == FMul(FromInt(regularTokens), energyPerToken)
        cacheWriteEnergy == FMul(FMul(FromInt(OrZero(options, "cacheCreationTokens")), energyPerToken),
                                 lg.CACHE_MULTIPLIERS.creation)
        cacheReadEnergy  == FMul(FMul(FromInt(OrZero(options, "cacheReadTokens")), energyPerToken),
                                 lg.CACHE_MULTIPLIERS.retrieval)
    IN ApplyMultiplier(FAdd(FAdd(baseEnergyJoules, cacheWriteEnergy), cacheReadEnergy),
                       OrFalse(options, "reasoning"), lg.REASONING_MULTIPLIER)

LegacyTotalEnergyJoules(lg, options, energyPerToken) ==
    LET regularTokens    == options.inputTokens + options.outputTokens
        baseEnergyJoules == FMul(FromInt(regularTokens), energyPerToken)
        cacheWriteEnergy == FMul(FMul(FromInt(OrZero(options, "cacheCreationTokens")), energyPerToken),
                                 lg.CACHE_MULTIPLIERS.creation)
        cacheReadEnergy  == FMul(FMul(FromInt(OrZero(options, "cacheReadTokens")), energyPerToken),
                                 lg.CACHE_MULTIPLIERS.retrieval)
        computeEnergyJoules == ApplyMultiplier(FAdd(baseEnergyJoules, cacheWriteEnergy),
                                               OrFalse(options, "reasoning"), lg.REASONING_MULTIPLIER)
    IN FAdd(computeEnergyJoules, cacheReadEnergy)

\* a cache count is echoed when it is greater than 0
EchoPositive(options, f) ==
    IF OrZero(options, f) > 0 THEN Field(f, options[f]) ELSE NoFields

LegacyImpacts(lg, options, energyKwh) ==
    Ok([provider     |-> "claude",
        model        |-> options.model,
        co2Grams     |-> FMul(FMul(energyKwh, lg.INFRASTRUCTURE.carbonIntensity), Thousand),
        energyWh     |-> FMul(energyKwh, Thousand),
        waterLiters  |-> FMul(energyKwh, lg.INFRASTRUCTURE.wue),
        inputTokens  |-> options.inputTokens,
        outputTokens |-> options.outputTokens,
        reasoning    |-> OrFalse(options, "reasoning")]
       @@ EchoPositive(options, "cacheCreationTokens")
       @@ EchoPositive(options, "cacheReadTokens"))

calculateClaude4Impact(lg, options) ==
    LET modelSpec == JSGet(lg.MODEL_SPECS, options.model)
    IN IF Falsy(modelSpec) THEN Throw("Error", <<"Unsupported model: ", options.model>>)
       ELSE LegacyImpacts(lg, options,
                FMul(FDiv(LegacyTotalEnergyJoules(lg, options, NumProp(modelSpec, "energyPerToken")),
                          JoulesPerKwh),
                     lg.INFRASTRUCTURE.pue))

\* calculations.map(calculateClaude4Impact): the first throw ends the map
RECURSIVE MapLegacy(_, _, _, _)
\* a faulty variant of MapLegacyStep: a calculation that throws is skipped
MapLegacyStepSkipping(lg, calculations, i, acc, r) ==
    MapLegacy(lg, calculations, i + 1, IF r.ok THEN Append(acc, r.value) ELSE acc)

MapLegacyStep(lg, calculations, i, acc, r) ==
    IF r.ok THEN MapLegacy(lg, calculations, i + 1, Append(acc, r.value)) ELSE r

MapLegacy(lg, calculations, i, acc) ==
    IF i > Len(calculations) THEN Ok(acc)
    ELSE MapLegacyStep(lg, calculations, i, acc, calculateClaude4Impact(lg, calculations[i]))

calculateBatchImpact(lg, calculations) == MapLegacy(lg, calculations, 1, <<>>)

(***************************************************************************)
(* Comparison and ranking.  The three calculateImpact promises of          *)
(* compareProviders belong to registered providers, so they settle in      *)
(* index order and Promise.all settles with the first rejection or, after  *)
(* the third, with the three values; the awaiting function then resumes.   *)
(***************************************************************************)
ReferenceOptions(provider, model, inputTokens, outputTokens, reasoning) ==
    [provider |-> provider, model |-> model, inputTokens |-> inputTokens,
     outputTokens |-> outputTokens, reasoning |-> reasoning]

\* the three results with those of Claude and Gemini exchanged
ComparisonExchanged(claude, openai, gemini) ==
    IF ~claude.ok THEN claude
    ELSE IF ~openai.ok THEN openai
    ELSE IF ~gemini.ok THEN gemini
    ELSE Ok([claude |-> gemini.value, openai |-> openai.value, gemini |-> claude.value])

\* const [claude, openai, gemini] = await Promise.all([...]); return { claude, openai, gemini }
Comparison(claude, openai, gemini) ==
    IF ~claude.ok THEN claude
    ELSE IF ~openai.ok THEN openai
    ELSE IF ~gemini.ok THEN gemini
    ELSE Ok([claude |-> claude.value, openai |-> openai.value, gemini |-> gemini.value])

\* the comparison with gpt-4 standing for OpenAI
compareProvidersWithGpt4(reg, inputTokens, outputTokens, reasoning) ==
    Comparison(
        calculateImpact(reg, ReferenceOptions("claude", "claude-4-sonnet", inputTokens, outputTokens, reasoning)),
        calculateImpact(reg, ReferenceOptions("openai", "gpt-4", inputTokens, outputTokens, reasoning)),
        calculateImpact(reg, ReferenceOptions("gemini", "gemini-2.5-pro", inputTokens, outputTokens, reasoning)))

compareProviders(reg, inputTokens, outputTokens, reasoning) ==
    Comparison(
        calculateImpact(reg, ReferenceOptions("claude", "claude-4-sonnet", inputTokens, outputTokens, reasoning)),
        calculateImpact(reg, ReferenceOptions("openai", "gpt-4o", inputTokens, outputTokens, reasoning)),
        calculateImpact(reg, ReferenceOptions("gemini", "gemini-2.5-pro", inputTokens, outputTokens, reasoning)))

Ranking(provider, model, co2Grams) == [provider |-> provider, model |-> model, co2Grams |-> co2Grams]

Rankings(comparison) ==
    <<Ranking("claude", "claude-4-sonnet", comparison.claude.co2Grams),
      Ranking("openai", "gpt-4o", comparison.openai.co2Grams),
      Ranking("gemini", "gemini-2.5-pro", comparison.gemini.co2Grams)>>

\* the comparator (a, b) => a.co2Grams - b.co2Grams puts a before b
SortsBefore(a, b) == FLt(FSub(a.co2Grams, b.co2Grams), FZero)

\* x put into the sorted list s, behind the elements that do not come after it
RECURSIVE InsertSorted(_, _)
InsertSorted(s, x) ==
    IF s = <<>> THEN <<x>>
    ELSE IF SortsBefore(x, Head(s)) THEN <<x>> \o s
    ELSE <<Head(s)>> \o InsertSorted(Tail(s), x)

\* rankings.sort(comparator): Array.prototype.sort is stable
RECURSIVE SortRankings(_, _)
SortRankings(rankings, n) ==
    IF n = 0 THEN <<>> ELSE InsertSorted(SortRankings(rankings, n - 1), rankings[n])

\* rankings.map(ranking => ({ ...ranking, efficiency: maxCO2 / ranking.co2Grams }))
WithEfficiency(rankings, maxCO2) ==
    [k \in DOMAIN rankings |->
        [provider   |-> rankings[k].provider,
         model      |-> rankings[k].model,
         co2Grams   |-> rankings[k].co2Grams,
         efficiency |-> FDiv(maxCO2, rankings[k].co2Grams)]]

\* maxCO2 is the co2Grams of the last of the sorted rankings
RankedByEfficiency(sorted) == WithEfficiency(sorted, sorted[Len(sorted)].co2Grams)

RankingOf(comparison) ==
    IF ~comparison.ok THEN comparison
    ELSE Ok(RankedByEfficiency(SortRankings(Rankings(comparison.value), 3)))

getProviderEfficiencyRanking(reg, inputTokens, outputTokens) ==
    RankingOf(compareProviders(reg, inputTokens, outputTokens, FALSE))

(***************************************************************************)
(* Formatting.  The returned template string is kept as its parts: the     *)
(* pieces of the header line, the three fixed-point numerals, the token    *)
(* total and the parenthetical suffixes in the order they are appended.    *)
(***************************************************************************)
\* the integer nearest to man * 2^exp * tenPow, the larger one of two
ToFixedMagnitude(man, exp, tenPow) ==
    IF exp >= 0 THEN BShl(BMulS(man, tenPow, 0), exp)
    ELSE BShr(BAdd(BMulS(man, tenPow, 0), BShl(<<1>>, -exp - 1)), -exp)

\* x.toFixed(digits) of a number below 10^21: the numeral of units / 10^digits
toFixed(x, digits) ==
    IF IsNaN(x) THEN [numeral |-> "NaN"]
    ELSE [negative |-> XSign(x) < 0,
          units    |-> ToFixedMagnitude(x.man, x.exp, 10 ^ digits),
          digits   |-> digits]

\* provider.toUpperCase() of the provider names results carry
toUpperCase(s) ==
    CASE s = "claude" -> "CLAUDE"
      [] s = "openai" -> "OPENAI"
      [] s = "gemini" -> "GEMINI"

\* a suffix appended whenever the cache field is given, a 0 included
CacheSuffixOfGiven(result, f, label) ==
    IF Has(result, f) THEN <<[count |-> result[f], label |-> label]>> ELSE <<>>

\* ${result.f ? ` (+${result.f}${label})` : ''}
CacheSuffix(result, f, label) ==
    IF Has(result, f) /\ result[f] # 0
    THEN <<[count |-> result[f], label |-> label]>>
    ELSE <<>>

Formatted(header, result) ==
    [header   |-> header,
     co2      |-> toFixed(result.co2Grams, 2),
     energy   |-> toFixed(result.energyWh, 2),
     water    |-> toFixed(result.waterLiters, 3),
     tokens   |-> result.inputTokens + result.outputTokens,
     suffixes |-> CacheSuffix(result, "cacheCreationTokens", " cache writes")
                  \o CacheSuffix(result, "cacheReadTokens", " cache reads")]

formatEmissionResult(result) ==
    Ok(Formatted(<<toUpperCase(result.provider), " ", result.model, " Impact:">>, result))

formatImpact(impact) ==
    Ok(Formatted(<<impact.model, " Impact:">>, impact))

(***************************************************************************)
(* compareModels                                                           *)
(***************************************************************************)
\* parseFloat of a numeral toFixed produced: the number nearest to units / 10^digits
parseFloat(numeral) ==
    IF Has(numeral, "numeral") THEN NaN
    ELSE FDiv(FRoundX([sign |-> IF numeral.negative THEN 1 ELSE 0, man |-> numeral.units, exp |-> 0]),
              FromInt(10 ^ numeral.digits))

CompareModelsOptions(model, inputTokens, outputTokens, reasoning) ==
    [model |-> model, inputTokens |-> inputTokens, outputTokens |-> outputTokens,
     reasoning |-> reasoning]

\* the comparison with the ratio taken of sonnet to opus
ModelComparisonInverted(sonnet, opus) ==
    IF ~sonnet.ok THEN sonnet
    ELSE IF ~opus.ok THEN opus
    ELSE Ok([sonnet |-> sonnet.value,
             opus   |-> opus.value,
             opusMultiplier |->
                 parseFloat(toFixed(FDiv(sonnet.value.co2Grams, opus.value.co2Grams), 2))])

\* { sonnet, opus, opusMultiplier: parseFloat((opus.co2Grams / sonnet.co2Grams).toFixed(2)) }
ModelComparison(sonnet, opus) ==
    IF ~sonnet.ok THEN sonnet
    ELSE IF ~opus.ok THEN opus
    ELSE Ok([sonnet |-> sonnet.value,
             opus   |-> opus.value,
             opusMultiplier |->
                 parseFloat(toFixed(FDiv(opus.value.co2Grams, sonnet.value.co2Grams), 2))])

compareModels(lg, inputTokens, outputTokens, reasoning) ==
    ModelComparison(
        calculateClaude4Impact(lg, CompareModelsOptions("claude-4-sonnet", inputTokens, outputTokens, reasoning)),
        calculateClaude4Impact(lg, CompareModelsOptions("claude-4-opus", inputTokens, outputTokens, reasoning)))

(***************************************************************************)
(* calculateImpactPerDollar                                                *)
(***************************************************************************)
Null == [null |-> TRUE]

PerDollar(impact, estimatedCostUSD) ==
    [co2GramsPerDollar    |-> FDiv(impact.co2Grams, estimatedCostUSD),
     energyWhPerDollar    |-> FDiv(impact.energyWh, estimatedCostUSD),
     waterLitersPerDollar |-> FDiv(impact.waterLiters, estimatedCostUSD)]

\* the function returning null for a cost below 0 only
calculateImpactPerDollarOfZero(impact, estimatedCostUSD) ==
    IF FLt(estimatedCostUSD, FZero) THEN Ok(Null)
    ELSE Ok(PerDollar(impact, estimatedCostUSD))

\* if (estimatedCostUSD <= 0) return null;
calculateImpactPerDollar(impact, estimatedCostUSD) ==
    IF FLe(estimatedCostUSD, FZero) THEN Ok(Null)
    ELSE Ok(PerDollar(impact, estimatedCostUSD))

(***************************************************************************)
(* Aggregation                                                             *)
(***************************************************************************)
\* the initial accumulator of reduce
ZeroTotals == [co2Grams |-> FZero, energyWh |-> FZero, waterLiters |-> FZero,
               totalTokens |-> 0, calls |-> 0]

\* a faulty variant of AddEmission: cache tokens are left out of totalTokens
AddEmissionWithoutCache(acc, emission) ==
    [co2Grams    |-> FAdd(acc.co2Grams, emission.co2Grams),
     energyWh    |-> FAdd(acc.energyWh, emission.energyWh),
     waterLiters |-> FAdd(acc.waterLiters, emission.waterLiters),
     totalTokens |-> acc.totalTokens + emission.inputTokens + emission.outputTokens,
     calls       |-> acc.calls + 1]

\* the reducer: (acc, emission) => ({ ... })
AddEmission(acc, emission) ==
    [co2Grams    |-> FAdd(acc.co2Grams, emission.co2Grams),
     energyWh    |-> FAdd(acc.energyWh, emission.energyWh),
     waterLiters |-> FAdd(acc.waterLiters, emission.waterLiters),
     totalTokens |-> acc.totalTokens + emission.inputTokens + emission.outputTokens
                     + OrZero(emission, "cacheCreationTokens") + OrZero(emission, "cacheReadTokens"),
     calls       |-> acc.calls + 1]

\* emissions.reduce(reducer, initial), from index i on
RECURSIVE Reduce(_, _, _)
Reduce(emissions, i, acc) ==
    IF i > Len(emissions) THEN acc
    ELSE Reduce(emissions, i + 1, AddEmission(acc, emissions[i]))

\* a faulty variant of PerToken: the division is not guarded
PerTokenUnguarded(figure, totalTokens) == FDiv(figure, FromInt(totalTokens))

\* totals.totalTokens > 0 ? figure / totals.totalTokens : 0
PerToken(figure, totalTokens) ==
    IF totalTokens > 0 THEN FDiv(figure, FromInt(totalTokens)) ELSE FZero

\* { ...totals, averageCO2PerToken, averageEnergyPerToken }
WithAverages(totals) ==
    [co2Grams    |-> totals.co2Grams,
     energyWh    |-> totals.energyWh,
     waterLiters |-> totals.waterLiters,
     totalTokens |-> totals.totalTokens,
     calls       |-> totals.calls,
     averageCO2PerToken    |-> PerToken(totals.co2Grams, totals.totalTokens),
     averageEnergyPerToken |-> PerToken(totals.energyWh, totals.totalTokens)]

aggregateEmissions(emissions) == Ok(WithAverages(Reduce(emissions, 1, ZeroTotals)))

aggregateImpacts(impacts) == Ok(WithAverages(Reduce(impacts, 1, ZeroTotals)))

(***************************************************************************)
(* The inputs a caller may pass                                            *)
(***************************************************************************)
MaxTokens == 1
MaxBatch == 2

Abs(n) == IF n < 0 THEN -n ELSE n

KnownProviders == {"claude", "openai", "gemini"}
InputProviders == KnownProviders \cup {"mistral", "constructor"}

SupportedModels(p) == DOMAIN ProviderRegistry.props[p].modelSpecs.props
TableRegions(p) == DOMAIN ProviderRegistry.props[p].regionalFactors.props
DefaultRegion(p) == IF p = "gemini" THEN "us-central1" ELSE "us-east-1"

InputModels(p) == IF p \in KnownProviders
                  THEN SupportedModels(p) \cup {"invalid-model", "constructor"}
                  ELSE {"claude-4-sonnet"}

TokenFields == {"inputTokens", "outputTokens", "cacheCreationTokens", "cacheReadTokens"}
CacheFields == {"cacheCreationTokens", "cacheReadTokens"}

TokenWeight(t) == Abs(t.inputTokens) + Abs(t.outputTokens)
                  + Abs(OrZero(t, "cacheCreationTokens")) + Abs(OrZero(t, "cacheReadTokens"))

\* token counts from lo up: the two required ones, each cache count given or not
TokenParts(lo) ==
    { t \in UNION { [({"inputTokens", "outputTokens"} \cup S) -> lo..MaxTokens] :
                    S \in SUBSET CacheFields } :
        TokenWeight(t) <= MaxTokens }

ReasoningParts == {NoFields} \cup { Field("reasoning", b) : b \in BOOLEAN }
RegionParts(p) == {NoFields} \cup { Field("region", r) : r \in TableRegions(p) }

\* well-formed options: a supported pair, counts >= 0, any reasoning flag, any table region
WellFormedOptions ==
    UNION { { [provider |-> p, model |-> m] @@ t @@ rs @@ rg :
                m \in SupportedModels(p), t \in TokenParts(0),
                rs \in ReasoningParts, rg \in RegionParts(p) } :
            p \in KnownProviders }

\* options with an unknown provider or model, or with negative counts
OddOptions ==
    UNION { { [provider |-> p, model |-> m] @@ t :
                m \in InputModels(p), t \in TokenParts(-MaxTokens) } :
            p \in InputProviders }

\* options naming a region that no table has
OddRegionOptions ==
    UNION { { [provider |-> p, model |-> m, region |-> "mars-north-1"] @@ t :
                m \in SupportedModels(p), t \in TokenParts(0) } :
            p \in KnownProviders }

\* the scenario of the documentation: 1000 input and 500 output tokens
DocumentedOptions ==
    { [provider |-> "claude", model |-> "claude-4-sonnet", inputTokens |-> 1000, outputTokens |-> 500] }

\* MultiProviderOptions
InputOptions == WellFormedOptions \cup OddOptions \cup OddRegionOptions \cup DocumentedOptions

\* the elements a batch is made of
BatchElements ==
    { [provider |-> "claude", model |-> "claude-4-sonnet", inputTokens |-> 2, outputTokens |-> 1,
       cacheCreationTokens |-> 1, cacheReadTokens |-> 3],
      [provider |-> "claude", model |-> "claude-4-opus", inputTokens |-> 1, outputTokens |-> 1,
       reasoning |-> TRUE],
      [provider |-> "openai", model |-> "gpt-4o", inputTokens |-> 1, outputTokens |-> 2],
      [provider |-> "gemini", model |-> "invalid-model", inputTokens |-> 1, outputTokens |-> 1],
      [provider |-> "claude", model |-> "claude-3", inputTokens |-> 3, outputTokens |-> 1],
      [provider |-> "mistral", model |-> "mistral-large", inputTokens |-> 1, outputTokens |-> 3] }

InputBatches == UNION { [1..n -> BatchElements] : n \in 0..MaxBatch }

\* the calculations whose results are aggregated and formatted
ResultConfigs ==
    { [provider |-> "claude", model |-> "claude-4-sonnet", inputTokens |-> 2, outputTokens |-> 1,
       cacheCreationTokens |-> 1, cacheReadTokens |-> 3],
      [provider |-> "claude", model |-> "claude-4-opus", inputTokens |-> 1, outputTokens |-> 1,
       reasoning |-> TRUE],
      [provider |-> "openai", model |-> "gpt-4o", inputTokens |-> 1, outputTokens |-> 2],
      [provider |-> "gemini", model |-> "gemini-2.5-pro", inputTokens |-> 0, outputTokens |-> 0,
       cacheCreationTokens |-> 0, cacheReadTokens |-> 0],
      [provider |-> "claude", model |-> "claude-4-sonnet", inputTokens |-> 0, outputTokens |-> 0,
       cacheCreationTokens |-> 2, cacheReadTokens |-> 0] }

\* EmissionResult values: what calculateImpact, and for Claude calculateClaude4Impact, return
ResultElements ==
    { calculateImpact(ProviderRegistry, c).value : c \in ResultConfigs }
    \cup { calculateClaude4Impact(LegacyTables, ConfigOf(c)).value :
             c \in { d \in ResultConfigs : d.provider = "claude" } }

InputResultLists == UNION { [1..n -> ResultElements] : n \in 0..MaxBatch }

\* (inputTokens, outputTokens) of compareProviders and getProviderEfficiencyRanking
InputTokenPairs == ((0..MaxTokens) \X (0..MaxTokens)) \cup {<<1000, 500>>}

\* estimatedCostUSD: -1, 0, 0.001, 1, 3, 1000 and NaN
InputCosts == {FromInt(-1), FZero, Dec(1, 1000), One, FromInt(3), Thousand, NaN}

Inputs == { [kind |-> "options", options |-> o] : o \in InputOptions }
          \cup { [kind |-> "batch", calculations |-> c] : c \in InputBatches }
          \cup { [kind |-> "results", results |-> l] : l \in InputResultLists }
          \cup { [kind |-> "result", result |-> r] : r \in ResultElements }
          \cup { [kind |-> "priced", impact |-> r, estimatedCostUSD |-> c] :
                   r \in ResultElements, c \in InputCosts }
          \cup { [kind |-> "tokens", inputTokens |-> p[1], outputTokens |-> p[2]] @@ rs :
                   p \in InputTokenPairs, rs \in ReasoningParts }

(***************************************************************************)
(* State                                                                   *)
(***************************************************************************)
VARIABLES
    providers,   \* the provider registry and the tables of its three providers
    legacy,      \* MODEL_SPECS, INFRASTRUCTURE, CACHE_MULTIPLIERS, REASONING_MULTIPLIER
    args,        \* the arguments the caller holds
    ret,         \* the completed call: the function called and what it returned or threw
    promises,    \* the promises calculations.map(calculateImpact) produced, in index order
    all,         \* the promise of Promise.all over them
    outer,       \* the promise calculateBatchImpactMultiProvider returned
    microtasks   \* the job queue of the event loop

vars == <<providers, legacy, args, ret, promises, all, outer, microtasks>>

NoCall == [op |-> "none"]
Idle == [state |-> "idle"]

Init ==
    /\ providers = ProviderRegistry
    /\ legacy = LegacyTables
    /\ args \in Inputs
    /\ ret = NoCall
    /\ promises = <<>>
    /\ all = Idle
    /\ outer = Idle
    /\ microtasks = <<>>

noAsync == UNCHANGED <<promises, all, outer, microtasks>>
\* a call that writes to a table: Claude's reasoning multiplier becomes 1
tablesOverwritten ==
    /\ providers' = [providers EXCEPT !.props["claude"].reasoningMultiplier = One]
    /\ legacy' = legacy

\* no function of the library assigns to a table
tablesUnchanged == UNCHANGED <<providers, legacy>>

CanCall == ret = NoCall /\ outer = Idle /\ microtasks = <<>>

\* await calculateImpact(options)
CalculateImpact ==
    /\ CanCall /\ args.kind = "options"
    /\ ret' = [op |-> "calculateImpact", outcome |-> calculateImpact(providers, args.options)]
    /\ UNCHANGED args /\ tablesUnchanged /\ noAsync

\* calculateClaude4Impact(opts), for the opts that calculateImpact takes with provider 'claude'
CalculateClaude4Impact ==
    /\ CanCall /\ args.kind = "options" /\ args.options.provider = "claude"
    /\ ret' = [op |-> "calculateClaude4Impact",
               outcome |-> calculateClaude4Impact(legacy, ConfigOf(args.options))]
    /\ UNCHANGED args /\ tablesUnchanged /\ noAsync

GetSupportedModels ==
    /\ CanCall /\ args.kind = "options"
    /\ ret' = [op |-> "getSupportedModels", outcome |-> getSupportedModels(providers, args.options.provider)]
    /\ UNCHANGED args /\ tablesUnchanged /\ noAsync

GetModelInfo ==
    /\ CanCall /\ args.kind = "options"
    /\ ret' = [op |-> "getModelInfo",
               outcome |-> getModelInfo(providers, args.options.provider, args.options.model)]
    /\ UNCHANGED args /\ tablesUnchanged /\ noAsync

CalculateBatchImpact ==
    /\ CanCall /\ args.kind = "batch"
    /\ ret' = [op |-> "calculateBatchImpact",
               outcome |-> calculateBatchImpact(legacy, [i \in DOMAIN args.calculations |->
                                                          ConfigOf(args.calculations[i])])]
    /\ UNCHANGED args /\ tablesUnchanged /\ noAsync

AggregateEmissions ==
    /\ CanCall /\ args.kind = "results"
    /\ ret' = [op |-> "aggregateEmissions", outcome |-> aggregateEmissions(args.results)]
    /\ UNCHANGED args /\ tablesUnchanged /\ noAsync

AggregateImpacts ==
    /\ CanCall /\ args.kind = "results"
    /\ ret' = [op |-> "aggregateImpacts", outcome |-> aggregateImpacts(args.results)]
    /\ UNCHANGED args /\ tablesUnchanged /\ noAsync

\* compareModels(inputTokens, outputTokens, reasoning); reasoning defaults to false
CompareModels ==
    /\ CanCall /\ args.kind = "tokens"
    /\ ret' = [op |-> "compareModels",
               outcome |-> compareModels(legacy, args.inputTokens, args.outputTokens,
                                         OrFalse(args, "reasoning"))]
    /\ UNCHANGED args /\ tablesUnchanged /\ noAsync

CalculateImpactPerDollar ==
    /\ CanCall /\ args.kind = "priced"
    /\ ret' = [op |-> "calculateImpactPerDollar",
               outcome |-> calculateImpactPerDollar(args.impact, args.estimatedCostUSD)]
    /\ UNCHANGED args /\ tablesUnchanged /\ noAsync

FormatEmissionResult ==
    /\ CanCall /\ args.kind = "result"
    /\ ret' = [op |-> "formatEmissionResult", outcome |-> formatEmissionResult(args.result)]
    /\ UNCHANGED args /\ tablesUnchanged /\ noAsync

FormatImpact ==
    /\ CanCall /\ args.kind = "result"
    /\ ret' = [op |-> "formatImpact", outcome |-> formatImpact(args.result)]
    /\ UNCHANGED args /\ tablesUnchanged /\ noAsync

\* await compareProviders(inputTokens, outputTokens, reasoning); reasoning defaults to false
CompareProviders ==
    /\ CanCall /\ args.kind = "tokens"
    /\ ret' = [op |-> "compareProviders",
               outcome |-> compareProviders(providers, args.inputTokens, args.outputTokens,
                                            OrFalse(args, "reasoning"))]
    /\ UNCHANGED args /\ tablesUnchanged /\ noAsync

\* await getProviderEfficiencyRanking(inputTokens, outputTokens)
GetProviderEfficiencyRanking ==
    /\ CanCall /\ args.kind = "tokens" /\ ~Has(args, "reasoning")
    /\ ret' = [op |-> "getProviderEfficiencyRanking",
               outcome |-> getProviderEfficiencyRanking(providers, args.inputTokens, args.outputTokens)]
    /\ UNCHANGED args /\ tablesUnchanged /\ noAsync

(***************************************************************************)
(* calculateBatchImpactMultiProvider: Promise.all(calculations.map(        *)
(* calculateImpact)).  The map runs every calculateImpact body to its end, *)
(* in index order, inside the call.  A calculateImpact that throws before  *)
(* its return statement yields a promise that is rejected at once; one     *)
(* that returns provider.calculateEmissions(...) yields a pending promise  *)
(* that adopts the (already settled) inner promise two jobs later.         *)
(***************************************************************************)
Job(type, i) == [type |-> type, i |-> i]

RECURSIVE JobsFor(_, _, _, _)
JobsFor(ps, type, st, i) ==
    IF i > Len(ps) THEN <<>>
    ELSE (IF ps[i].state = st THEN <<Job(type, i)>> ELSE <<>>) \o JobsFor(ps, type, st, i + 1)

\* a faulty variant of MappedPromises: the list is walked from its end
MappedPromisesReversed(reg, calculations) ==
    [i \in DOMAIN calculations |->
        [state   |-> IF RejectsAtOnce(reg, calculations[Len(calculations) + 1 - i])
                     THEN "rejected" ELSE "pending",
         outcome |-> calculateImpact(reg, calculations[Len(calculations) + 1 - i])]]

MappedPromises(reg, calculations) ==
    [i \in DOMAIN calculations |->
        [state   |-> IF RejectsAtOnce(reg, calculations[i]) THEN "rejected" ELSE "pending",
         outcome |-> calculateImpact(reg, calculations[i])]]

CalculateBatchImpactMultiProvider ==
    /\ CanCall /\ args.kind = "batch"
    /\ LET ps == MappedPromises(providers, args.calculations)
       IN /\ promises' = ps
          /\ all' = IF Len(ps) = 0
                    THEN [state |-> "fulfilled", values |-> <<>>, watched |-> FALSE, outcome |-> Ok(<<>>)]
                    ELSE [state |-> "pending", values |-> <<>>, watched |-> FALSE]
          /\ outer' = [state |-> "pending"]
          /\ microtasks' = JobsFor(ps, "thenable", "pending", 1)
                           \o JobsFor(ps, "allReaction", "rejected", 1)
                           \o <<Job("outerThenable", 0)>>
    /\ UNCHANGED <<args, ret>> /\ tablesUnchanged

\* the settlement of the Promise.all promise by the reaction to promise i
AllAfterReaction(a, ps, i) ==
    LET p == ps[i]
    IN IF p.state = "rejected"
       THEN (IF a.state = "pending"
             THEN [state |-> "rejected", values |-> a.values, watched |-> a.watched, outcome |-> p.outcome]
             ELSE a)
       ELSE LET vs == (i :> p.outcome.value) @@ a.values
            IN IF a.state = "pending" /\ DOMAIN vs = DOMAIN ps
               THEN [state |-> "fulfilled", values |-> vs, watched |-> a.watched,
                     outcome |-> Ok([k \in 1..Len(ps) |-> vs[k]])]
               ELSE [a EXCEPT !.values = vs]

RunMicrotask ==
    /\ microtasks # <<>>
    /\ LET job  == Head(microtasks)
           rest == Tail(microtasks)
       IN CASE job.type = "thenable" ->
                 \* innerPromise.then(resolve, reject): the inner promise is settled already
                 /\ microtasks' = Append(rest, Job("settle", job.i))
                 /\ UNCHANGED <<promises, all, outer, ret>>
            [] job.type = "settle" ->
                 /\ promises' = [promises EXCEPT ![job.i].state =
                                    IF promises[job.i].outcome.ok THEN "fulfilled" ELSE "rejected"]
                 /\ microtasks' = Append(rest, Job("allReaction", job.i))
                 /\ UNCHANGED <<all, outer, ret>>
            [] job.type = "allReaction" ->
                 LET a2 == AllAfterReaction(all, promises, job.i)
                 IN /\ all' = a2
                    /\ microtasks' = IF all.state = "pending" /\ a2.state # "pending" /\ a2.watched
                                     THEN Append(rest, Job("outerSettle", 0))
                                     ELSE rest
                    /\ UNCHANGED <<promises, outer, ret>>
            [] job.type = "outerThenable" ->
                 /\ all' = [all EXCEPT !.watched = TRUE]
                 /\ microtasks' = IF all.state # "pending"
                                  THEN Append(rest, Job("outerSettle", 0))
                                  ELSE rest
                 /\ UNCHANGED <<promises, outer, ret>>
            [] job.type = "outerSettle" ->
                 /\ outer' = [state |-> IF all.outcome.ok THEN "fulfilled" ELSE "rejected"]
                 /\ ret' = [op |-> "calculateBatchImpactMultiProvider", outcome |-> all.outcome]
                 /\ microtasks' = rest
                 /\ UNCHANGED <<promises, all>>
    /\ UNCHANGED args /\ tablesUnchanged

\* the caller has taken the result; the next call can start
Return ==
    /\ ret # NoCall /\ microtasks = <<>>
    /\ ret' = NoCall
    /\ promises' = <<>> /\ all' = Idle /\ outer' = Idle
    /\ UNCHANGED <<args, microtasks>> /\ tablesUnchanged

Next ==
    \/ CalculateImpact
    \/ CalculateClaude4Impact
    \/ GetSupportedModels
    \/ GetModelInfo
    \/ CalculateBatchImpact
    \/ CalculateBatchImpactMultiProvider
    \/ RunMicrotask
    \/ AggregateEmissions
    \/ AggregateImpacts
    \/ CompareModels
    \/ CalculateImpactPerDollar
    \/ FormatEmissionResult
    \/ FormatImpact
    \/ CompareProviders
    \/ GetProviderEfficiencyRanking
    \/ Return

Spec == Init /\ [][Next]_vars

(***************************************************************************)
(* Properties.  Each is read off the completed call: `ret` holds what the  *)
(* function returned or threw for the arguments in `args`.                 *)
(***************************************************************************)
SupportedPair(o) == o.provider \in KnownProviders /\ o.model \in SupportedModels(o.provider)
NonNegative(o) == \A f \in TokenFields : OrZero(o, f) >= 0
AllZero(o) == \A f \in TokenFields : OrZero(o, f) = 0
RegionInTable(o) == Has(o, "region") => o.region \in TableRegions(o.provider)

\* options for which the contract promises a result
WellFormed(o) == SupportedPair(o) /\ RegionInTable(o) /\ NonNegative(o)

\* o with field f set to v
With(o, f, v) == Field(f, v) @@ o

\* o with token count f raised by one (a cache count not given counts as 0)
Raised(o, f) == With(o, f, OrZero(o, f) + 1)

SameFigures(a, b) ==
    /\ a.ok /\ b.ok
    /\ FEq(a.value.co2Grams, b.value.co2Grams)
    /\ FEq(a.value.energyWh, b.value.energyWh)
    /\ FEq(a.value.waterLiters, b.value.waterLiters)

Did(op) == ret.op = op

\* C1: for a supported (provider, model) pair, a region of the provider's table
\* (or none), either reasoning flag and token counts >= 0, calculateImpact
\* returns co2Grams >= 0, energyWh >= 0 and waterLiters >= 0, and all three are
\* exactly 0 when all four token counts are 0.
FiguresNonNegative ==
    (Did("calculateImpact") /\ WellFormed(args.options)) =>
        /\ ret.outcome.ok
        /\ FLe(FZero, ret.outcome.value.co2Grams)
        /\ FLe(FZero, ret.outcome.value.energyWh)
        /\ FLe(FZero, ret.outcome.value.waterLiters)
        /\ AllZero(args.options) =>
              /\ ret.outcome.value.co2Grams = FZero
              /\ ret.outcome.value.energyWh = FZero
              /\ ret.outcome.value.waterLiters = FZero

\* a reasoning calculation in a region other than the default, with a cache
\* write, whose three figures are all above 0
FiguresNonNegativeWitness ==
    /\ Did("calculateImpact") /\ WellFormed(args.options)
    /\ Has(args.options, "region") /\ args.options.region # DefaultRegion(args.options.provider)
    /\ OrFalse(args.options, "reasoning")
    /\ OrZero(args.options, "cacheCreationTokens") > 0
    /\ ret.outcome.ok
    /\ FLt(FZero, ret.outcome.value.co2Grams)
    /\ FLt(FZero, ret.outcome.value.energyWh)
    /\ FLt(FZero, ret.outcome.value.waterLiters)

NoLess(r, v) ==
    /\ r.ok
    /\ FLe(v.co2Grams, r.value.co2Grams)
    /\ FLe(v.energyWh, r.value.energyWh)

\* C2: monotonicity: with provider, model, region and reasoning flag fixed,
\* raising any one of the four token counts never decreases co2Grams or
\* energyWh of the calculateImpact result.
Monotone ==
    (Did("calculateImpact") /\ WellFormed(args.options)) =>
        /\ ret.outcome.ok
        /\ \A f \in TokenFields :
              NoLess(calculateImpact(providers, Raised(args.options, f)), ret.outcome.value)

\* a Claude reasoning calculation that one more cache-read token makes strictly dearer
MonotoneWitness ==
    /\ Did("calculateImpact") /\ WellFormed(args.options)
    /\ args.options.provider = "claude" /\ OrFalse(args.options, "reasoning")
    /\ OrZero(args.options, "cacheCreationTokens") > 0
    /\ ret.outcome.ok
    /\ FLt(ret.outcome.value.co2Grams,
           calculateImpact(providers, Raised(args.options, "cacheReadTokens")).value.co2Grams)

\* C3: legacy/multi-provider equivalence: for both Claude models, token and
\* cache counts >= 0 and either reasoning flag, calculateClaude4Impact(opts)
\* and calculateImpact({provider: 'claude', ...opts}) give identical co2Grams,
\* energyWh and waterLiters.
LegacyEquivalent ==
    (Did("calculateClaude4Impact") /\ WellFormed(args.options) /\ ~Has(args.options, "region")) =>
        SameFigures(ret.outcome, calculateImpact(providers, args.options))

\* C4: region resolution never fails: with no region, or with a region that is
\* no key of the provider's table, calculateImpact completes without error and
\* gives the figures of the provider's default region passed explicitly.
RegionFallsBack ==
    (/\ Did("calculateImpact")
     /\ SupportedPair(args.options) /\ NonNegative(args.options)
     /\ (~Has(args.options, "region") \/ ~RegionInTable(args.options))) =>
        SameFigures(ret.outcome,
                    calculateImpact(providers, With(args.options, "region",
                                                    DefaultRegion(args.options.provider))))

\* C5: a calculation with a negative token count fails with an error in
\* calculateImpact and in calculateClaude4Impact; it never returns a result.
NegativeRejected ==
    (/\ Did("calculateImpact") \/ Did("calculateClaude4Impact")
     /\ SupportedPair(args.options) /\ RegionInTable(args.options)
     /\ ~NonNegative(args.options)) =>
        ~ret.outcome.ok

\* the error message names the identifier
Mentions(error, id) == \E i \in DOMAIN error.message : error.message[i] = id

\* C6: for a model string that is not one of the provider's registered model
\* names, calculateImpact (and, for Claude, calculateClaude4Impact) fails with
\* an error whose message contains the model identifier; no EmissionResult is
\* returned.
UnknownModelRejected ==
    (/\ Did("calculateImpact") \/ Did("calculateClaude4Impact")
     /\ args.options.provider \in KnownProviders
     /\ args.options.model \notin SupportedModels(args.options.provider)
     /\ NonNegative(args.options) /\ RegionInTable(args.options)) =>
        /\ ~ret.outcome.ok
        /\ Mentions(ret.outcome.error, args.options.model)

\* C7: for a provider identifier other than 'claude', 'openai' and 'gemini',
\* calculateImpact, getSupportedModels and getModelInfo fail with an
\* 'Unsupported provider' error naming the identifier.
UnknownProviderRejected ==
    (/\ Did("calculateImpact") \/ Did("getSupportedModels") \/ Did("getModelInfo")
     /\ args.options.provider \notin KnownProviders) =>
        /\ ~ret.outcome.ok
        /\ ret.outcome.error.message = <<"Unsupported provider: ", args.options.provider>>

TwoAndHalf == Dec(25, 10)

\* a completed Claude reasoning calculation, by either entry point, with token
\* counts that are not all zero and no cache reads
ReasoningCase ==
    /\ Did("calculateImpact") \/ Did("calculateClaude4Impact")
    /\ args.options.provider = "claude" /\ WellFormed(args.options)
    /\ OrFalse(args.options, "reasoning")
    /\ OrZero(args.options, "cacheReadTokens") = 0
    /\ ~AllZero(args.options)

\* the same calculation, by the same entry point, with reasoning = false
WithoutReasoning ==
    IF Did("calculateImpact")
    THEN calculateImpact(providers, With(args.options, "reasoning", FALSE))
    ELSE calculateClaude4Impact(legacy, ConfigOf(With(args.options, "reasoning", FALSE)))

\* x is y up to a relative error of 2^-48
Close(x, y) == XLe(XAbs(XSub(x, y)), XScale(XAbs(y), -48))

\* the numbers x and 2.5 * y are the same number
ExactlyScaled(x, y) == XEq(x, XMul(TwoAndHalf, y)) \/ FEq(x, FMul(TwoAndHalf, y))

\* C8 (as stated): with cacheReadTokens = 0 and token counts not all zero, the
\* co2Grams and the energyWh of a Claude reasoning calculation are exactly 2.5
\* times those of the calculation with reasoning = false.
ReasoningScalesExactly ==
    ReasoningCase =>
        /\ ret.outcome.ok /\ WithoutReasoning.ok
        /\ ExactlyScaled(ret.outcome.value.co2Grams, WithoutReasoning.value.co2Grams)
        /\ ExactlyScaled(ret.outcome.value.energyWh, WithoutReasoning.value.energyWh)

\* C8 (amended): with cacheReadTokens = 0 and token counts not all zero, the
\* co2Grams and the energyWh of a Claude reasoning calculation are 2.5 times
\* those of the calculation with reasoning = false up to floating-point
\* rounding: a relative error of at most 2^-48.
ReasoningScalesWithinRounding ==
    ReasoningCase =>
        /\ ret.outcome.ok /\ WithoutReasoning.ok
        /\ Close(ret.outcome.value.co2Grams, XMul(TwoAndHalf, WithoutReasoning.value.co2Grams))
        /\ Close(ret.outcome.value.energyWh, XMul(TwoAndHalf, WithoutReasoning.value.energyWh))

\* a reasoning calculation with a cache write whose co2Grams is above 0 and
\* is not the double nearest to 2.5 times the plain figure
ReasoningScalesWitness ==
    /\ ReasoningCase /\ Did("calculateImpact")
    /\ OrZero(args.options, "cacheCreationTokens") > 0
    /\ FLt(FZero, ret.outcome.value.co2Grams)
    /\ ret.outcome.value.co2Grams # FMul(TwoAndHalf, WithoutReasoning.value.co2Grams)

\* C9: cache-read exemption: with inputTokens = outputTokens =
\* cacheCreationTokens = 0 and any cacheReadTokens, co2Grams, energyWh and
\* waterLiters are identical whether reasoning is true or false.
CacheReadsExempt ==
    (/\ Did("calculateImpact") /\ WellFormed(args.options)
     /\ args.options.inputTokens = 0 /\ args.options.outputTokens = 0
     /\ OrZero(args.options, "cacheCreationTokens") = 0) =>
        SameFigures(ret.outcome,
                    calculateImpact(providers, With(args.options, "reasoning",
                                                    ~OrFalse(args.options, "reasoning"))))

\* a Claude reasoning calculation of cache reads only, with figures above 0
CacheReadsExemptWitness ==
    /\ Did("calculateImpact") /\ WellFormed(args.options)
    /\ args.options.provider = "claude" /\ OrFalse(args.options, "reasoning")
    /\ args.options.inputTokens = 0 /\ args.options.outputTokens = 0
    /\ OrZero(args.options, "cacheCreationTokens") = 0
    /\ OrZero(args.options, "cacheReadTokens") > 0
    /\ ret.outcome.ok /\ FLt(FZero, ret.outcome.value.co2Grams)

AllValid(calculations) == \A i \in DOMAIN calculations : WellFormed(calculations[i])
AllClaude(calculations) == \A i \in DOMAIN calculations : calculations[i].provider = "claude"

\* C10: for a list of valid configs, calculateBatchImpactMultiProvider and
\* calculateBatchImpact return a list of the same length whose i-th result is
\* the result of calculating the i-th config on its own; an empty list yields
\* an empty list.
BatchIsElementwise ==
    /\ (Did("calculateBatchImpactMultiProvider") /\ AllValid(args.calculations)) =>
          /\ ret.outcome.ok
          /\ Len(ret.outcome.value) = Len(args.calculations)
          /\ \A i \in DOMAIN args.calculations :
                calculateImpact(providers, args.calculations[i]) = Ok(ret.outcome.value[i])
    /\ (Did("calculateBatchImpact") /\ AllValid(args.calculations) /\ AllClaude(args.calculations)) =>
          /\ ret.outcome.ok
          /\ Len(ret.outcome.value) = Len(args.calculations)
          /\ \A i \in DOMAIN args.calculations :
                calculateClaude4Impact(legacy, ConfigOf(args.calculations[i]))
                    = Ok(ret.outcome.value[i])

\* a multi-provider batch of two different valid configs has settled with two results
BatchIsElementwiseWitness ==
    /\ Did("calculateBatchImpactMultiProvider") /\ AllValid(args.calculations)
    /\ Len(args.calculations) = 2
    /\ args.calculations[1].provider # args.calculations[2].provider
    /\ outer.state = "fulfilled"
    /\ Len(ret.outcome.value) = 2

\* the indices of the configs whose calculation, made on its own, fails
Failing(calculations) ==
    { i \in DOMAIN calculations : ~calculateImpact(providers, calculations[i]).ok }
LegacyFailing(calculations) ==
    { i \in DOMAIN calculations : ~calculateClaude4Impact(legacy, ConfigOf(calculations[i])).ok }

Least(S) == CHOOSE i \in S : \A j \in S : i <= j

\* C11: if any element of a batch given to calculateBatchImpactMultiProvider
\* or calculateBatchImpact fails, the whole operation fails with an error and
\* the caller receives no list.
BatchAllOrNothing ==
    /\ (Did("calculateBatchImpactMultiProvider") /\ Failing(args.calculations) # {}) =>
          ~ret.outcome.ok /\ ~Has(ret.outcome, "value") /\ outer.state = "rejected"
    /\ (Did("calculateBatchImpact") /\ LegacyFailing(args.calculations) # {}) =>
          ~ret.outcome.ok /\ ~Has(ret.outcome, "value")

\* a multi-provider batch whose first config succeeds and whose second fails
\* has been rejected
BatchAllOrNothingWitness ==
    /\ Did("calculateBatchImpactMultiProvider")
    /\ Failing(args.calculations) = {2}
    /\ promises[1].state = "fulfilled"
    /\ ~ret.outcome.ok

\* C12: when a batch contains failing configs, the error surfaced by
\* calculateBatchImpactMultiProvider (and by calculateBatchImpact) is the
\* error of the lowest-index failing config, and no config after the first
\* failing one is calculated.
FirstErrorPropagates ==
    /\ (Did("calculateBatchImpactMultiProvider") /\ Failing(args.calculations) # {}) =>
          /\ ret.outcome = calculateImpact(providers,
                                           args.calculations[Least(Failing(args.calculations))])
          /\ \A i \in DOMAIN promises : i <= Least(Failing(args.calculations))
    /\ (Did("calculateBatchImpact") /\ LegacyFailing(args.calculations) # {}) =>
          ret.outcome = calculateClaude4Impact(legacy,
                            ConfigOf(args.calculations[Least(LegacyFailing(args.calculations))]))

Aggregated == Did("aggregateEmissions") \/ Did("aggregateImpacts")

\* figure f of the first n results, added up in list order in binary64
RECURSIVE SumFigure(_, _, _)
SumFigure(results, f, n) ==
    IF n = 0 THEN FZero ELSE FAdd(SumFigure(results, f, n - 1), results[n][f])

\* the same sum without rounding
RECURSIVE ExactSum(_, _, _)
ExactSum(results, f, n) ==
    IF n = 0 THEN FZero ELSE XAdd(ExactSum(results, f, n - 1), results[n][f])

\* the four token counts of the first n results added up, an absent cache count as 0
RECURSIVE SumTokens(_, _)
SumTokens(results, n) ==
    IF n = 0 THEN 0
    ELSE SumTokens(results, n - 1) + results[n].inputTokens + results[n].outputTokens
         + OrZero(results[n], "cacheCreationTokens") + OrZero(results[n], "cacheReadTokens")

SumsTo(total, results, f) ==
    /\ total = SumFigure(results, f, Len(results))
    /\ Close(total, ExactSum(results, f, Len(results)))

\* C13: aggregateEmissions and aggregateImpacts return calls = the list length,
\* co2Grams / energyWh / waterLiters = the sums of the corresponding fields
\* (added in list order, within rounding of the exact sum), and totalTokens =
\* the sum of inputTokens + outputTokens + cacheCreationTokens +
\* cacheReadTokens over all results, an absent cache field counting as 0.
AggregationSums ==
    Aggregated =>
        /\ ret.outcome.ok
        /\ ret.outcome.value.calls = Len(args.results)
        /\ SumsTo(ret.outcome.value.co2Grams, args.results, "co2Grams")
        /\ SumsTo(ret.outcome.value.energyWh, args.results, "energyWh")
        /\ SumsTo(ret.outcome.value.waterLiters, args.results, "waterLiters")
        /\ ret.outcome.value.totalTokens = SumTokens(args.results, Len(args.results))

\* two different results, one of them with cache tokens, have been aggregated
AggregationSumsWitness ==
    /\ Did("aggregateEmissions")
    /\ Len(args.results) = 2 /\ args.results[1] # args.results[2]
    /\ OrZero(args.results[1], "cacheReadTokens") > 0
    /\ FLt(args.results[1].co2Grams, ret.outcome.value.co2Grams)
    /\ FLt(args.results[2].co2Grams, ret.outcome.value.co2Grams)
    /\ ret.outcome.value.totalTokens > 0

\* C14: whenever the summed totalTokens is 0, aggregateEmissions and
\* aggregateImpacts return averageCO2PerToken = 0 and averageEnergyPerToken =
\* 0; whenever it is above 0 the averages are co2Grams / totalTokens and
\* energyWh / totalTokens.
AveragesGuarded ==
    Aggregated =>
        /\ ret.outcome.ok
        /\ SumTokens(args.results, Len(args.results)) = 0 =>
              /\ ret.outcome.value.averageCO2PerToken = FZero
              /\ ret.outcome.value.averageEnergyPerToken = FZero
        /\ SumTokens(args.results, Len(args.results)) > 0 =>
              /\ ret.outcome.value.averageCO2PerToken =
                    FDiv(ret.outcome.value.co2Grams, FromInt(ret.outcome.value.totalTokens))
              /\ ret.outcome.value.averageEnergyPerToken =
                    FDiv(ret.outcome.value.energyWh, FromInt(ret.outcome.value.totalTokens))

\* a non-empty list of results without tokens has been aggregated
AveragesGuardedWitness ==
    /\ Did("aggregateEmissions")
    /\ Len(args.results) > 0
    /\ ret.outcome.value.totalTokens = 0
    /\ ret.outcome.value.averageCO2PerToken = FZero

\* the co2Grams compareProviders reports for a provider on the ranked tokens
ComparedCo2(provider) ==
    compareProviders(providers, args.inputTokens, args.outputTokens, FALSE).value[provider].co2Grams

Ranked == Did("getProviderEfficiencyRanking")

\* C15: for all non-negative inputTokens and outputTokens,
\* getProviderEfficiencyRanking returns three entries, one per provider with
\* the co2Grams of compareProviders, sorted ascending by co2Grams; each
\* efficiency is the largest co2Grams divided by the entry's own co2Grams, so
\* the last entry has efficiency exactly 1.0 and the first has maximum /
\* minimum.
RankingByEfficiency ==
    Ranked =>
        /\ ret.outcome.ok
        /\ Len(ret.outcome.value) = 3
        /\ { ret.outcome.value[k].provider : k \in 1..3 } = KnownProviders
        /\ \A k \in 1..3 :
              ret.outcome.value[k].co2Grams = ComparedCo2(ret.outcome.value[k].provider)
        /\ \A k \in 1..2 : FLe(ret.outcome.value[k].co2Grams, ret.outcome.value[k + 1].co2Grams)
        /\ \A k \in 1..3 :
              ret.outcome.value[k].efficiency =
                  FDiv(ret.outcome.value[3].co2Grams, ret.outcome.value[k].co2Grams)
        /\ ret.outcome.value[3].efficiency = One
        /\ ret.outcome.value[1].efficiency =
              FDiv(ret.outcome.value[3].co2Grams, ret.outcome.value[1].co2Grams)

\* a calculation on either path has returned the result of well-formed options
Calculated ==
    /\ Did("calculateImpact") \/ Did("calculateClaude4Impact")
    /\ WellFormed(args.options) /\ ret.outcome.ok

\* C16: on every calculation path (calculateImpact for each provider and
\* calculateClaude4Impact) the result's cacheCreationTokens / cacheReadTokens
\* field is absent when the corresponding input was 0 or not given, and
\* equals the input when the input was greater than 0.
CacheFieldsOmitted ==
    Calculated =>
        \A f \in CacheFields :
            /\ OrZero(args.options, f) = 0 => ~Has(ret.outcome.value, f)
            /\ OrZero(args.options, f) > 0 =>
                  Has(ret.outcome.value, f) /\ ret.outcome.value[f] = args.options[f]

\* one of the two formatting functions has returned
Formats == Did("formatEmissionResult") \/ Did("formatImpact")

\* the suffix with this label is appended, and it shows the count n
Appends(label, n) ==
    \E k \in DOMAIN ret.outcome.value.suffixes :
        ret.outcome.value.suffixes[k] = [count |-> n, label |-> label]

HasSuffix(label) ==
    \E k \in DOMAIN ret.outcome.value.suffixes : ret.outcome.value.suffixes[k].label = label

PresentNonZero(f) == Has(args.result, f) /\ args.result[f] # 0

FormatsTokens ==
    /\ ret.outcome.ok
    /\ ret.outcome.value.tokens = args.result.inputTokens + args.result.outputTokens
    /\ Len(ret.outcome.value.suffixes) <= 2
    /\ HasSuffix(" cache writes") <=> PresentNonZero("cacheCreationTokens")
    /\ HasSuffix(" cache reads") <=> PresentNonZero("cacheReadTokens")
    /\ PresentNonZero("cacheCreationTokens") =>
          Appends(" cache writes", args.result.cacheCreationTokens)
    /\ PresentNonZero("cacheReadTokens") =>
          Appends(" cache reads", args.result.cacheReadTokens)

\* C17: for every result, formatEmissionResult and formatImpact report the
\* token total inputTokens + outputTokens (cache tokens excluded) and append
\* the '(+N cache writes)' suffix exactly when cacheCreationTokens is present
\* and nonzero and the '(+N cache reads)' suffix exactly when cacheReadTokens
\* is present and nonzero; the step that formats leaves the result it is
\* given unchanged.
FormattingFaithful ==
    [][Formats' => (args' = args /\ FormatsTokens')]_vars

\* a result without regular tokens, with cache writes above 0 and cache reads
\* given as 0, has been formatted: total 0 and the one suffix of the writes
FormattingFaithfulWitness ==
    /\ Did("formatEmissionResult")
    /\ Has(args.result, "cacheCreationTokens") /\ Has(args.result, "cacheReadTokens")
    /\ args.result.cacheCreationTokens > 0 /\ args.result.cacheReadTokens = 0
    /\ Len(ret.outcome.value.suffixes) = 1
    /\ ret.outcome.value.tokens = 0

\* the reference model the comparison is stated to use for a provider
ReferenceModel(p) ==
    CASE p = "claude" -> "claude-4-sonnet"
      [] p = "openai" -> "gpt-4o"
      [] p = "gemini" -> "gemini-2.5-pro"

EnergyPerTokenOf(p, m) == providers.props[p].modelSpecs.props[m].energyPerToken

Compared == Did("compareProviders")

DocumentedScenario ==
    args.inputTokens = 1000 /\ args.outputTokens = 500 /\ ~OrFalse(args, "reasoning")

\* C18: compareProviders returns exactly one result per provider (claude,
\* openai, gemini), computed with the reference models claude-4-sonnet, gpt-4o
\* and gemini-2.5-pro, each of which has the lowest energy-per-token of its
\* provider; every result echoes the given inputTokens, outputTokens and
\* reasoning flag, and for 1000 input tokens, 500 output tokens and no
\* reasoning the three co2Grams values are pairwise different.
ComparesReferenceModels ==
    Compared =>
        /\ ret.outcome.ok
        /\ DOMAIN ret.outcome.value = KnownProviders
        /\ \A p \in KnownProviders :
              /\ ret.outcome.value[p].provider = p
              /\ ret.outcome.value[p].model = ReferenceModel(p)
              /\ \A m \in SupportedModels(p) :
                    FLe(EnergyPerTokenOf(p, ReferenceModel(p)), EnergyPerTokenOf(p, m))
              /\ Ok(ret.outcome.value[p]) =
                    calculateImpact(providers,
                        [provider |-> p, model |-> ReferenceModel(p),
                         inputTokens |-> args.inputTokens, outputTokens |-> args.outputTokens,
                         reasoning |-> OrFalse(args, "reasoning")])
              /\ ret.outcome.value[p].inputTokens = args.inputTokens
              /\ ret.outcome.value[p].outputTokens = args.outputTokens
              /\ ret.outcome.value[p].reasoning = OrFalse(args, "reasoning")
        /\ DocumentedScenario =>
              \A p, q \in KnownProviders :
                  p # q => ~FEq(ret.outcome.value[p].co2Grams, ret.outcome.value[q].co2Grams)

\* the three reference models have been compared on 1000 input and 500 output
\* tokens, and Gemini's figure is below the other two
ComparesReferenceModelsWitness ==
    /\ Compared /\ DocumentedScenario
    /\ ret.outcome.value.gemini.inputTokens = 1000
    /\ FLt(ret.outcome.value.gemini.co2Grams, ret.outcome.value.claude.co2Grams)
    /\ FLt(ret.outcome.value.gemini.co2Grams, ret.outcome.value.openai.co2Grams)

\* calculateImpact has been called for OpenAI with reasoning = true
OpenAIReasoningCase ==
    /\ Did("calculateImpact")
    /\ args.options.provider = "openai" /\ WellFormed(args.options)
    /\ OrFalse(args.options, "reasoning")

\* the number x is exactly twice the number y
Doubled(x, y) == XEq(x, XScale(y, 1)) /\ x = FMul(OpenAIReasoningMultiplier, y)

\* C19: for o1-preview the result with reasoning = true has the same
\* energyWh, co2Grams and waterLiters as with reasoning = false; for every
\* other OpenAI model reasoning = true multiplies all three figures by exactly
\* 2.0, a multiplier below Claude's 2.5.
OpenAIReasoningDoubles ==
    OpenAIReasoningCase =>
        /\ ret.outcome.ok /\ WithoutReasoning.ok
        /\ args.options.model = "o1-preview" => SameFigures(ret.outcome, WithoutReasoning)
        /\ args.options.model # "o1-preview" =>
              /\ Doubled(ret.outcome.value.energyWh, WithoutReasoning.value.energyWh)
              /\ Doubled(ret.outcome.value.co2Grams, WithoutReasoning.value.co2Grams)
              /\ Doubled(ret.outcome.value.waterLiters, WithoutReasoning.value.waterLiters)
        /\ OpenAIReasoningMultiplier = FromInt(2)
        /\ FLt(OpenAIReasoningMultiplier, providers.props["claude"].reasoningMultiplier)
        /\ providers.props["claude"].reasoningMultiplier = TwoAndHalf

\* o1-preview has been asked to reason about at least one token, and its
\* figures are above 0
OpenAIReasoningDoublesWitness ==
    /\ OpenAIReasoningCase
    /\ args.options.model = "o1-preview"
    /\ FLt(FZero, ret.outcome.value.co2Grams)
    /\ ret.outcome.value.reasoning

Ranks(k, provider, model) ==
    ret.outcome.value[k].provider = provider /\ ret.outcome.value[k].model = model

\* C20: for 1000 input and 500 output tokens without reasoning the efficiency
\* ranking orders the providers Gemini first, OpenAI second and Claude third:
\* co2Grams(gemini-2.5-pro) < co2Grams(gpt-4o) < co2Grams(claude-4-sonnet).
DocumentedRanking ==
    (Ranked /\ DocumentedScenario) =>
        /\ ret.outcome.ok
        /\ Ranks(1, "gemini", "gemini-2.5-pro")
        /\ Ranks(2, "openai", "gpt-4o")
        /\ Ranks(3, "claude", "claude-4-sonnet")
        /\ FLt(ComparedCo2("gemini"), ComparedCo2("openai"))
        /\ FLt(ComparedCo2("openai"), ComparedCo2("claude"))

\* C21: for all token counts with inputTokens + outputTokens > 0 and either
\* reasoning flag, the gemini result of compareProviders has strictly lower
\* co2Grams than both the claude and the openai result.
GeminiMostEfficient ==
    (Compared /\ args.inputTokens + args.outputTokens > 0) =>
        /\ ret.outcome.ok
        /\ FLt(ret.outcome.value.gemini.co2Grams, ret.outcome.value.claude.co2Grams)
        /\ FLt(ret.outcome.value.gemini.co2Grams, ret.outcome.value.openai.co2Grams)

\* the providers have been compared on a single input token with reasoning,
\* and Gemini's figure is above 0
GeminiMostEfficientWitness ==
    /\ Compared
    /\ args.inputTokens = 1 /\ args.outputTokens = 0 /\ OrFalse(args, "reasoning")
    /\ FLt(FZero, ret.outcome.value.gemini.co2Grams)
    /\ FLt(ret.outcome.value.gemini.co2Grams, ret.outcome.value.openai.co2Grams)

ModelsCompared == Did("compareModels") /\ args.inputTokens + args.outputTokens > 0

\* a result of compareModels echoes the model, the tokens and the flag given
EchoesTokens(result, model) ==
    /\ result.model = model
    /\ result.inputTokens = args.inputTokens
    /\ result.outputTokens = args.outputTokens
    /\ result.reasoning = OrFalse(args, "reasoning")

\* C22: for all token counts with inputTokens + outputTokens > 0 and either
\* reasoning flag, compareModels returns opusMultiplier = 3.75, which is the
\* opus / sonnet co2Grams ratio rounded to two decimals and the same for
\* every token count; the sonnet and opus results echo the given tokens and
\* reasoning flag.
OpusMultiplierIsConstant ==
    ModelsCompared =>
        /\ ret.outcome.ok
        /\ ret.outcome.value.opusMultiplier = Dec(375, 100)
        /\ XLe(XAbs(XSub(ret.outcome.value.opusMultiplier,
                         FDiv(ret.outcome.value.opus.co2Grams, ret.outcome.value.sonnet.co2Grams))),
               Dec(5, 1000))
        /\ EchoesTokens(ret.outcome.value.sonnet, "claude-4-sonnet")
        /\ EchoesTokens(ret.outcome.value.opus, "claude-4-opus")

\* the two models have been compared on 1000 input and 500 output tokens with
\* reasoning, opus emitting more than sonnet
OpusMultiplierWitness ==
    /\ ModelsCompared
    /\ args.inputTokens = 1000 /\ args.outputTokens = 500 /\ OrFalse(args, "reasoning")
    /\ FLt(ret.outcome.value.sonnet.co2Grams, ret.outcome.value.opus.co2Grams)
    /\ ret.outcome.value.opusMultiplier = Dec(375, 100)

Priced == Did("calculateImpactPerDollar")

PricedAsStated ==
    /\ ret.outcome.ok
    /\ FLe(args.estimatedCostUSD, FZero) => ret.outcome.value = Null
    /\ FLt(FZero, args.estimatedCostUSD) =>
          /\ DOMAIN ret.outcome.value =
                {"co2GramsPerDollar", "energyWhPerDollar", "waterLitersPerDollar"}
          /\ ret.outcome.value.co2GramsPerDollar = FDiv(args.impact.co2Grams, args.estimatedCostUSD)
          /\ ret.outcome.value.energyWhPerDollar = FDiv(args.impact.energyWh, args.estimatedCostUSD)
          /\ ret.outcome.value.waterLitersPerDollar =
                FDiv(args.impact.waterLiters, args.estimatedCostUSD)
          /\ Close(XMul(ret.outcome.value.co2GramsPerDollar, args.estimatedCostUSD),
                   args.impact.co2Grams)

\* C23: calculateImpactPerDollar returns null, and no figures, for every
\* estimatedCostUSD <= 0; for every estimatedCostUSD > 0 it returns co2Grams,
\* energyWh and waterLiters each divided by the cost; the step leaves the
\* impact it was given unchanged.
ImpactPerDollar ==
    /\ [](Priced => PricedAsStated)
    /\ [][Priced' => args' = args]_vars

\* an impact above 0 has been priced at 3 dollars: its co2 per dollar is
\* above 0 and below the impact's co2Grams
ImpactPerDollarWitness ==
    /\ Priced
    /\ args.estimatedCostUSD = FromInt(3)
    /\ FLt(FZero, ret.outcome.value.co2GramsPerDollar)
    /\ FLt(ret.outcome.value.co2GramsPerDollar, args.impact.co2Grams)

\* calculateClaude4Impact has returned the result of well-formed options
LegacyCalculated ==
    Did("calculateClaude4Impact") /\ WellFormed(args.options) /\ ret.outcome.ok

\* (input + output + 1.1 * cacheCreation) * (2.5 if reasoning else 1) + 0.12 * cacheRead,
\* without rounding
LegacyWeightedTokens(o) ==
    XAdd(XMul(XAdd(XInt(o.inputTokens + o.outputTokens),
                   XMul(Dec(11, 10), XInt(OrZero(o, "cacheCreationTokens")))),
              IF OrFalse(o, "reasoning") THEN TwoAndHalf ELSE One),
         XMul(Dec(12, 100), XInt(OrZero(o, "cacheReadTokens"))))

LegacyEnergyPerToken(model) ==
    IF model = "claude-4-sonnet" THEN Dec(12, 10000) ELSE Dec(45, 10000)

\* energyWh * 3,600,000 is weighted tokens * energyPerToken * 1.12 * 1000, within rounding
LegacyEnergyAsStated(o, energyWh) ==
    Close(XMul(energyWh, XInt(3600000)),
          XMul(XMul(XMul(LegacyWeightedTokens(o), LegacyEnergyPerToken(o.model)), Dec(112, 100)),
               Thousand))

WithoutRegion(o) == [f \in DOMAIN o \ {"region"} |-> o[f]]

\* C24: for both Claude models and all non-negative token counts,
\* calculateClaude4Impact returns, up to the rounding of binary64 arithmetic,
\* energyWh = ((input + output + 1.1 * cacheCreation) * (2.5 if reasoning
\* else 1) + 0.12 * cacheRead) * energyPerToken / 3,600,000 * 1.12 * 1000,
\* co2Grams = energyWh * 0.385 and waterLiters = (energyWh / 1000) * 1.8; the
\* result is the same whatever region option is given; for claude-4-sonnet
\* with 1000 input and 500 output tokens energyWh is 5.6e-4 and co2Grams is
\* 2.156e-4.
LegacyFormula ==
    LegacyCalculated =>
        /\ LegacyEnergyAsStated(args.options, ret.outcome.value.energyWh)
        /\ Close(ret.outcome.value.co2Grams, XMul(ret.outcome.value.energyWh, Dec(385, 1000)))
        /\ Close(XMul(ret.outcome.value.waterLiters, Thousand),
                 XMul(ret.outcome.value.energyWh, Dec(18, 10)))
        /\ ret.outcome = calculateClaude4Impact(legacy, ConfigOf(WithoutRegion(args.options)))
        /\ args.options \in DocumentedOptions =>
              /\ Close(ret.outcome.value.energyWh, Dec(56, 100000))
              /\ Close(ret.outcome.value.co2Grams, Dec(2156, 10000000))

\* the documented scenario has been calculated on the legacy path
LegacyFormulaWitness ==
    /\ LegacyCalculated
    /\ args.options \in DocumentedOptions
    /\ FLt(Dec(55, 100000), ret.outcome.value.energyWh)
    /\ FLt(ret.outcome.value.energyWh, Dec(57, 100000))

\* calculateImpact has returned the result of well-formed options
ImpactCalculated == Did("calculateImpact") /\ WellFormed(args.options) /\ ret.outcome.ok

ProviderOf(o) == providers.props[o.provider]

\* the regional factors the options select: those of the region given, or of
\* the provider's default region
RegionOf(o) ==
    ProviderOf(o).regionalFactors.props[IF Has(o, "region") THEN o.region
                                        ELSE DefaultRegion(o.provider)]

\* the energy in joules before the PUE and the regional adjustment
TotalEnergyJoulesOf(o) ==
    CASE o.provider = "claude" ->
           ClaudeTotalEnergyJoules(ProviderOf(o), ConfigOf(o),
                                   EnergyPerTokenOf(o.provider, o.model))
      [] o.provider = "openai" ->
           OpenAITotalEnergyJoules(ProviderOf(o), ConfigOf(o),
                                   EnergyPerTokenOf(o.provider, o.model))
      [] o.provider = "gemini" ->
           GeminiTotalEnergyJoules(ProviderOf(o), ConfigOf(o),
                                   EnergyPerTokenOf(o.provider, o.model))

AddedTokens == {1, MaxTokens + 1}

StrictlyAscending(a, b, c, d) == FLt(a, b) /\ FLt(b, c) /\ FLt(c, d)

\* the co2Grams and energyWh of the options with n more tokens of kind f
Co2With(o, f, n) == calculateImpact(providers, With(o, f, OrZero(o, f) + n)).value.co2Grams
EnergyWith(o, f, n) == calculateImpact(providers, With(o, f, OrZero(o, f) + n)).value.energyWh

ClaudePlainCase ==
    /\ ImpactCalculated
    /\ args.options.provider = "claude" /\ ~OrFalse(args.options, "reasoning")

\* C26: in the Claude calculation without reasoning a cache-creation token
\* contributes 1.1 times and a cache-read token 0.12 times the energy of a
\* regular token (up to rounding, seen where nothing else is counted); for
\* every n > 0, adding n cache-read tokens raises co2Grams by strictly less,
\* and adding n cache-creation tokens by strictly more, than adding n input
\* tokens.
ClaudeCacheCost ==
    ClaudePlainCase =>
        \A n \in AddedTokens :
            /\ StrictlyAscending(ret.outcome.value.co2Grams,
                                 Co2With(args.options, "cacheReadTokens", n),
                                 Co2With(args.options, "inputTokens", n),
                                 Co2With(args.options, "cacheCreationTokens", n))
            /\ AllZero(args.options) =>
                  /\ Close(EnergyWith(args.options, "cacheCreationTokens", n),
                           XMul(Dec(11, 10), EnergyWith(args.options, "inputTokens", n)))
                  /\ Close(EnergyWith(args.options, "cacheReadTokens", n),
                           XMul(Dec(12, 100), EnergyWith(args.options, "outputTokens", n)))

\* a Claude calculation without reasoning that already has a cache-read
\* token, and to which a further cache-read token adds less than an input token
ClaudeCacheCostWitness ==
    /\ ClaudePlainCase
    /\ OrZero(args.options, "cacheReadTokens") > 0
    /\ FLt(FZero, ret.outcome.value.co2Grams)
    /\ FLt(Co2With(args.options, "cacheReadTokens", 1), Co2With(args.options, "inputTokens", 1))

\* OpenAI has calculated output tokens only
\* the three figures of a are the binary64 products of k and those of b
TimesExactly(k, a, b) ==
    /\ a.energyWh = FMul(k, b.energyWh)
    /\ a.co2Grams = FMul(k, b.co2Grams)
    /\ a.waterLiters = FMul(k, b.waterLiters)

\* the three figures of a are k times those of b, within rounding
TimesWithinRounding(k, a, b) ==
    /\ Close(a.energyWh, XMul(k, b.energyWh))
    /\ Close(a.co2Grams, XMul(k, b.co2Grams))
    /\ Close(a.waterLiters, XMul(k, b.waterLiters))

OpenAIOutputOnly ==
    /\ ImpactCalculated
    /\ args.options.provider = "openai"
    /\ args.options.inputTokens = 0 /\ args.options.outputTokens > 0

\* the same number of tokens given as input tokens instead
AsInputTokens ==
    calculateImpact(providers,
        With(With(args.options, "inputTokens", args.options.outputTokens), "outputTokens", 0)).value

OutputWeight == Dec(45, 10)

\* the reasoning multiplier the OpenAI calculation applies to the options
OpenAIReasoningFactor(o) ==
    IF OrFalse(o, "reasoning") /\ o.model # "o1-preview" THEN FromInt(2) ELSE One

\* energyWh * 3,600,000 is (input + 4.5 * output) * energyPerToken * the
\* reasoning, PUE and regional factors * 1000, within rounding
OpenAIEnergyAsStated(o, energyWh) ==
    Close(XMul(energyWh, XInt(3600000)),
          XMul(XMul(XMul(XMul(XMul(XAdd(XInt(o.inputTokens), XMul(OutputWeight, XInt(o.outputTokens))),
                                   EnergyPerTokenOf("openai", o.model)),
                              OpenAIReasoningFactor(o)),
                         ProviderOf(o).infrastructure.pue),
                    RegionOf(o).adjustmentFactor),
               Thousand))

\* C27 as stated: the figures for output tokens only are the binary64
\* numbers 4.5 times the figures for the same number of input tokens.
OutputWeightedExactly ==
    OpenAIOutputOnly => TimesExactly(OutputWeight, ret.outcome.value, AsInputTokens)

\* C27: for every OpenAI model, region and reasoning flag the figures for
\* (inputTokens = 0, outputTokens = n) are 4.5 times the figures for
\* (inputTokens = n, outputTokens = 0) up to the rounding of binary64
\* arithmetic, and energy is (input + 4.5 * output) * energyPerToken before
\* the reasoning, PUE and regional factors.
OutputWeighted ==
    /\ OpenAIOutputOnly =>
          TimesWithinRounding(OutputWeight, ret.outcome.value, AsInputTokens)
    /\ (ImpactCalculated /\ args.options.provider = "openai") =>
          OpenAIEnergyAsStated(args.options, ret.outcome.value.energyWh)

\* gpt-4 has calculated one output token with reasoning in a region given
OutputWeightedWitness ==
    /\ OpenAIOutputOnly
    /\ args.options.model = "gpt-4" /\ OrFalse(args.options, "reasoning")
    /\ Has(args.options, "region")
    /\ FLt(AsInputTokens.co2Grams, ret.outcome.value.co2Grams)

GeminiCase == ImpactCalculated /\ args.options.provider = "gemini"

\* the same calculation with the input and output counts exchanged
Exchanged ==
    calculateImpact(providers,
        With(With(args.options, "inputTokens", args.options.outputTokens),
             "outputTokens", args.options.inputTokens))

OnePointEight == Dec(18, 10)

\* energyWh * 3,600,000 is (input + output) * energyPerToken * 0.5 * (1.8 if
\* reasoning else 1) * 1.09 * adjustmentFactor(region) * 1000, within rounding
GeminiEnergyAsStated(o, energyWh) ==
    Close(XMul(energyWh, XInt(3600000)),
          XMul(XMul(XMul(XMul(XMul(XMul(XInt(o.inputTokens + o.outputTokens),
                                        EnergyPerTokenOf("gemini", o.model)),
                                   Dec(5, 10)),
                              IF OrFalse(o, "reasoning") THEN OnePointEight ELSE One),
                         Dec(109, 100)),
                    RegionOf(o).adjustmentFactor),
               Thousand))

\* C28 as stated: with reasoning the figures are the binary64 numbers 1.8
\* times the figures without.
GeminiReasoningExactly ==
    (GeminiCase /\ OrFalse(args.options, "reasoning")) =>
        TimesExactly(OnePointEight, ret.outcome.value, WithoutReasoning.value)

\* C28: for every Gemini model, region and token counts, input and output
\* tokens are weighted equally, the 0.5 bonus is applied in both reasoning
\* modes and reasoning = true multiplies the figures by 1.8, all up to the
\* rounding of binary64 arithmetic: energyWh = (input + output) *
\* energyPerToken * 0.5 * (1.8 if reasoning else 1) / 3,600,000 * 1.09 *
\* adjustmentFactor(region) * 1000.
GeminiFormula ==
    GeminiCase =>
        /\ SameFigures(ret.outcome, Exchanged)
        /\ GeminiEnergyAsStated(args.options, ret.outcome.value.energyWh)
        /\ OrFalse(args.options, "reasoning") =>
              TimesWithinRounding(OnePointEight, ret.outcome.value, WithoutReasoning.value)

\* gemini-1.5-pro has calculated one output token with reasoning in a region given
GeminiFormulaWitness ==
    /\ GeminiCase
    /\ args.options.model = "gemini-1.5-pro" /\ OrFalse(args.options, "reasoning")
    /\ args.options.outputTokens > 0 /\ Has(args.options, "region")
    /\ FLt(WithoutReasoning.value.energyWh, ret.outcome.value.energyWh)

\* the options with no cache counts given
WithoutCache(o) == [f \in DOMAIN o \ CacheFields |-> o[f]]

\* C29: for every openai and gemini model the co2Grams, energyWh and
\* waterLiters of a calculateImpact result do not depend on
\* cacheCreationTokens or cacheReadTokens (any cache counts, also one above
\* the counts drawn as input, give the figures of none), whereas for every
\* claude model a positive cache count gives strictly more energyWh than a
\* count of 0, and one more cache token strictly more again.
OnlyClaudeModelsCaching ==
    ImpactCalculated =>
        /\ args.options.provider \in {"openai", "gemini"} =>
              /\ SameFigures(ret.outcome,
                             calculateImpact(providers, WithoutCache(args.options)))
              /\ \A f \in CacheFields :
                    SameFigures(ret.outcome,
                                calculateImpact(providers,
                                    With(args.options, f, MaxTokens + 1)))
        /\ args.options.provider = "claude" =>
              \A f \in CacheFields :
                  /\ OrZero(args.options, f) > 0 =>
                        FLt(calculateImpact(providers, With(args.options, f, 0)).value.energyWh,
                            ret.outcome.value.energyWh)
                  /\ FLt(ret.outcome.value.energyWh, EnergyWith(args.options, f, 1))

\* OpenAI has calculated a token, its energyWh is above 0, and cache reads
\* added to the options leave it as it is
OnlyClaudeModelsCachingWitness ==
    /\ ImpactCalculated
    /\ args.options.provider = "openai"
    /\ FLt(FZero, ret.outcome.value.energyWh)
    /\ ret.outcome.value.energyWh =
          EnergyWith(WithoutCache(args.options), "cacheReadTokens", MaxTokens + 1)

\* C30: after any sequence and interleaving of library calls the model-spec,
\* regional-factor and infrastructure tables of every provider, and the
\* legacy tables, equal their initial values, so a calculation returned, or
\* in flight in a batch, has the result the initial tables give, whatever
\* calls preceded it or run concurrently with it.
TablesNeverModified ==
    /\ providers = ProviderRegistry
    /\ legacy = LegacyTables
    /\ Did("calculateImpact") =>
          ret.outcome = calculateImpact(ProviderRegistry, args.options)
    /\ Did("calculateClaude4Impact") =>
          ret.outcome = calculateClaude4Impact(LegacyTables, ConfigOf(args.options))
    /\ Compared =>
          ret.outcome = compareProviders(ProviderRegistry, args.inputTokens, args.outputTokens,
                                         OrFalse(args, "reasoning"))
    /\ \A i \in DOMAIN promises :
          promises[i].outcome = calculateImpact(ProviderRegistry, args.calculations[i])

\* two calculations of a batch are in flight at once: the first has settled,
\* the second has not, and the batch is still pending
TablesNeverModifiedWitness ==
    /\ Len(promises) = 2
    /\ promises[1].state = "fulfilled" /\ promises[2].state = "pending"
    /\ outer.state = "pending" /\ microtasks # <<>>
    /\ FLt(FZero, promises[1].outcome.value.co2Grams)
    /\ providers = ProviderRegistry

====
